---- MODULE Spec2Model ----
(***************************************************************************)
(* MatFree: a tree-walking interpreter for a MATLAB-like language.         *)
(*                                                                         *)
(* The model is a state machine over one Interpreter object.  Its state is *)
(* the interpreter's fields (the environments, the current environment,    *)
(* the user-function registry, the output sink); its actions are the       *)
(* public entry points (executeString, callUserFunction, setOutput).  The  *)
(* recursive descent of the interpreter over the AST is modelled by        *)
(* recursive operators that thread the interpreter state and return, next  *)
(* to the state, the C++ exception in flight (none, BreakSignal,           *)
(* ContinueSignal, ReturnSignal, RuntimeError, std::exception).            *)
(***************************************************************************)
EXTENDS Integers, Sequences, FiniteSets, TLC

VARIABLES envs, currentEnv_, userFunctions_, output_, last, nCalls, front

vars == <<envs, currentEnv_, userFunctions_, output_, last, nCalls, front>>

----------------------------------------------------------------------------
(* Bounds of the model *)

\* number of executeString calls in one interpreter session
MaxCalls == 2
\* size_t is modelled with SizeMod values (arithmetic modulo SizeMod)
SizeMod == 32768
\* stand-in for std::vector<double>::max_size()
VectorMaxSize == 4096
\* largest loop range / argument used by the program families
MaxN == 3
\* number of pieces a source text given to the lexer is made of
MaxPieces == 3
\* number of operators and operands an expression given to the parser is
\* made of
MaxExprPieces == 5

----------------------------------------------------------------------------
(* Values (value.h) *)

Max(a, b) == IF a >= b THEN a ELSE b
Min(a, b) == IF a <= b THEN a ELSE b

RECURSIVE Pow(_, _)
Pow(b, e) == IF e <= 0 THEN 1 ELSE b * Pow(b, e - 1)

EmptyFields == [x \in {} |-> 0]

\* Matrix(): rows_(0), cols_(0)
DefaultMatrix == [rows_ |-> 0, cols_ |-> 0, data_ |-> <<>>]

\* Matrix(rows, cols, fillValue): data_(rows * cols, fillValue)
MatrixFill(rows, cols, fillValue) ==
    [rows_ |-> rows, cols_ |-> cols, data_ |-> [i \in 1..(rows * cols) |-> fillValue]]

\* Matrix(rows, cols, data)
MatrixOf(rows, cols, data) == [rows_ |-> rows, cols_ |-> cols, data_ |-> data]

MatrixScalar(val) == MatrixOf(1, 1, <<val>>)

numel(m) == Len(m.data_)
MatIsEmpty(m) == Len(m.data_) = 0
MatIsScalar(m) == m.rows_ = 1 /\ m.cols_ = 1

\* operator()(row, col): data_[row * cols_ + col], 0-indexed, unchecked
At(m, row, col) == m.data_[row * m.cols_ + col + 1]

\* FunctionDef (ast.h)
NoDef == [name |-> "", params |-> <<>>, returns |-> <<>>, body |-> <<>>]

\* FunctionHandle: name + variant<BuiltinFunc, shared_ptr<FunctionDef>>
NoHandle == [name |-> "", kind |-> "builtin", def |-> NoDef]

DefaultCell == [rows |-> 0, cols |-> 0, data |-> <<>>]

\* Value(): type_(EMPTY); every other member default-constructed
BaseValue ==
    [type_ |-> "EMPTY", matrix_ |-> DefaultMatrix, string_ |-> <<>>,
     cellArray_ |-> DefaultCell, struct_ |-> EmptyFields, funcHandle_ |-> NoHandle]

\* a null ValuePtr
Null == [BaseValue EXCEPT !.type_ = "nullptr"]
IsNull(v) == v.type_ = "nullptr"

makeEmpty == BaseValue
makeMatrix(m) == [BaseValue EXCEPT !.type_ = "MATRIX", !.matrix_ = m]
makeScalar(d) == makeMatrix(MatrixScalar(d))
makeBool(b) ==
    [BaseValue EXCEPT !.type_ = "LOGICAL", !.matrix_ = MatrixScalar(IF b THEN 1 ELSE 0)]
\* a string is a sequence of text fragments; concatenation is \o
makeString(s) == [BaseValue EXCEPT !.type_ = "STRING", !.string_ = s]
makeStruct(f) == [BaseValue EXCEPT !.type_ = "STRUCT", !.struct_ = f]
makeCellArray(c) == [BaseValue EXCEPT !.type_ = "CELL_ARRAY", !.cellArray_ = c]
makeFuncHandle(fh) == [BaseValue EXCEPT !.type_ = "FUNC_HANDLE", !.funcHandle_ = fh]

isMatrix(v) == v.type_ = "MATRIX"
isString(v) == v.type_ = "STRING"
isLogical(v) == v.type_ = "LOGICAL"
isCellArray(v) == v.type_ = "CELL_ARRAY"
isStruct(v) == v.type_ = "STRUCT"
isFuncHandle(v) == v.type_ = "FUNC_HANDLE"
isEmpty(v) == v.type_ = "EMPTY"
isNumeric(v) == isMatrix(v) \/ isLogical(v)
isScalar(v) == isNumeric(v) /\ MatIsScalar(v.matrix_)

\* Value::toBool for numeric values: all elements nonzero and numel > 0
MatToBool(m) == (\A i \in 1..numel(m) : m.data_[i] # 0) /\ numel(m) > 0

----------------------------------------------------------------------------
(* Environment (environment.h).  envs maps an environment id to the        *)
(* Environment object; id 1 is the global environment, parent_ = 0 is the  *)
(* null parent.                                                            *)

globalEnv_ == 1

NewEnv(parent) == [parent_ |-> parent, variables_ |-> EmptyFields, globals_ |-> {}]

RECURSIVE getGlobalEnv(_, _)
getGlobalEnv(es, e) == IF es[e].parent_ # 0 THEN getGlobalEnv(es, es[e].parent_) ELSE e

\* Environment::get with lexical scoping: a name that is not bound here is
\* looked up in the parent scope
RECURSIVE EnvGetThroughParent(_, _, _)
EnvGetThroughParent(es, e, name) ==
    IF name \in DOMAIN es[e].variables_ THEN es[e].variables_[name]
    ELSE IF es[e].parent_ # 0 THEN EnvGetThroughParent(es, es[e].parent_, name)
    ELSE Null

\* Environment::get: own bindings first, then the global redirection; the
\* parent scope is not searched
EnvGet(es, e, name) ==
    IF name \in DOMAIN es[e].variables_ THEN es[e].variables_[name]
    ELSE IF name \in es[e].globals_ /\ es[e].parent_ # 0
         THEN LET g == getGlobalEnv(es, e)
              IN IF name \in DOMAIN es[g].variables_ THEN es[g].variables_[name] ELSE Null
         ELSE Null

\* Environment::set: the global redirection first, then own bindings
EnvSet(es, e, name, value) ==
    IF name \in es[e].globals_ /\ es[e].parent_ # 0
    THEN LET g == getGlobalEnv(es, e)
         IN [es EXCEPT ![g].variables_ = (name :> value) @@ es[g].variables_]
    ELSE [es EXCEPT ![e].variables_ = (name :> value) @@ es[e].variables_]

EnvHas(es, e, name) ==
    IF name \in DOMAIN es[e].variables_ THEN TRUE
    ELSE IF name \in es[e].globals_ /\ es[e].parent_ # 0
         THEN name \in DOMAIN es[getGlobalEnv(es, e)].variables_
         ELSE FALSE

declareGlobal(es, e, name) == [es EXCEPT ![e].globals_ = @ \cup {name}]

\* clear(): variables_.clear()
EnvClear(es, e) == [es EXCEPT ![e].variables_ = EmptyFields]

\* clear(name): variables_.erase(name)
EnvClearName(es, e, name) ==
    [es EXCEPT ![e].variables_ = [n \in (DOMAIN es[e].variables_) \ {name} |-> es[e].variables_[n]]]

\* createChild: a new Environment whose parent is e
NextEnvId(es) == 1 + Cardinality(DOMAIN es)
createChild(es, e) == (NextEnvId(es) :> NewEnv(e)) @@ es

----------------------------------------------------------------------------
(* AST (ast.h).  Nil is a null ExprPtr. *)

Nil == [k |-> "nullptr"]
IsNil(e) == e.k = "nullptr"
Num(v) == [k |-> "NumberLiteral", value |-> v]
\* the value is the text of the literal: nothing for the empty literal
Str(s) == [k |-> "StringLiteral", value |-> IF s = "" THEN <<>> ELSE <<s>>]
Bool(b) == [k |-> "BoolLiteral", value |-> b]
Id(n) == [k |-> "Identifier", name |-> n]
Unary(op, e) == [k |-> "UnaryExpr", op |-> op, operand |-> e]
Bin(op, l, r) == [k |-> "BinaryExpr", op |-> op, left |-> l, right |-> r]
Mat(rows) == [k |-> "MatrixLiteral", rows |-> rows]
CellLit(rows) == [k |-> "CellArrayLiteral", rows |-> rows]
Call(name, args) == [k |-> "CallExpr", callee |-> Id(name), arguments |-> args]
Dot(obj, field) == [k |-> "DotExpr", object |-> obj, field |-> field]
Colon(start, stop) == [k |-> "ColonExpr", start |-> start, step |-> Nil, stop |-> stop]
BareColon == [k |-> "ColonExpr", start |-> Nil, step |-> Nil, stop |-> Nil]
AnonFunc(params, body) == [k |-> "AnonFuncExpr", params |-> params, body |-> body]
FuncHandle(name) == [k |-> "FuncHandleExpr", name |-> name]

ExprStmt(e, print) == [k |-> "ExprStmt", expression |-> e, printResult |-> print]
Assign(target, value, print) ==
    [k |-> "AssignStmt", target |-> target, value |-> value, printResult |-> print]
\* the common case  name = value;
Set(name, value) == Assign(Id(name), value, FALSE)
\* the common case  disp(e);
Disp(e) == ExprStmt(Call("disp", <<e>>), FALSE)
Branch(cond, body) == [condition |-> cond, body |-> body]
If(branches) == [k |-> "IfStmt", branches |-> branches]
IfThen(cond, body) == If(<<Branch(cond, body)>>)
For(variable, range, body) ==
    [k |-> "ForStmt", variable |-> variable, range |-> range, body |-> body]
While(cond, body) == [k |-> "WhileStmt", condition |-> cond, body |-> body]
TryCatch(tryBody, catchVar, catchBody) ==
    [k |-> "TryCatchStmt", tryBody |-> tryBody, catchVar |-> catchVar, catchBody |-> catchBody]
Return == [k |-> "ReturnStmt"]
Break == [k |-> "BreakStmt"]
Continue == [k |-> "ContinueStmt"]
Global(names) == [k |-> "GlobalStmt", variables |-> names]
FunctionDef(name, params, returns, body) ==
    [name |-> name, params |-> params, returns |-> returns, body |-> body]
Program(statements, functions) == [statements |-> statements, functions |-> functions]

----------------------------------------------------------------------------
(* Results of the recursive evaluation: the interpreter state, the C++     *)
(* exception in flight ("none" when the call returned), what() of an       *)
(* error, and the returned value.                                          *)

Ok(st, val) == [st |-> st, exc |-> "none", msg |-> <<>>, val |-> val]
Throw(st, exc, msg) == [st |-> st, exc |-> exc, msg |-> msg, val |-> Null]
RuntimeError(st, msg) == Throw(st, "RuntimeError", msg)
\* an std::exception that is not a RuntimeError
StdException(st, msg) == Throw(st, "std::exception", msg)
\* the process dies on an out-of-bounds memory access
Crash(st) == Throw(st, "crash", <<>>)
\* a construct the model has no translation for
Unmodelled(st) == Throw(st, "unmodelled", <<>>)

\* one statement after another: Rest(r) goes on from the outcome r of the
\* first unless that threw, in which case the exception r propagates
Then(r, Rest(_)) == IF r.exc # "none" THEN r ELSE Rest(r)
\* Rest(r), whatever the outcome r is
With(r, Rest(_)) == Rest(r)

\* what() of the length_error thrown by std::vector's constructor
LengthErrorWhat == <<"cannot create std::vector larger than max_size()">>

----------------------------------------------------------------------------
(* size_t arithmetic and unchecked element access.  st.ub names the        *)
(* outcome of the two kinds of undefined behaviour the code can run into:  *)
(* conv, the conversion of a negative double to size_t (wraps or           *)
(* saturates to 0), and read, an access past the end of data_ (crashes, or *)
(* a read yields the junk value and a store lands outside the matrix).     *)

UBChoices == [conv : {"wrap", "sat"}, read : {"crash", "junk"}]
JunkValue == 77

ToSizeT(d, ub) ==
    IF d >= 0 THEN d % SizeMod
    ELSE IF ub.conv = "wrap" THEN (SizeMod - ((-d) % SizeMod)) % SizeMod ELSE 0

SizeSub(a, b) == (a - b + SizeMod) % SizeMod
SizeMulAdd(a, b, c) == (a * b + c) % SizeMod

\* does the size_t index idx (0-indexed) fall inside data_?
InData(m, idx) == idx < numel(m)

----------------------------------------------------------------------------
(* Matrix operations (value.cpp) *)

\* broadcastCheck: the result shape, or rows = -1 when it throws
broadcastCheck(a, b) ==
    IF a.rows_ = b.rows_ /\ a.cols_ = b.cols_ THEN [rows |-> a.rows_, cols |-> a.cols_]
    ELSE IF MatIsScalar(a) THEN [rows |-> b.rows_, cols |-> b.cols_]
    ELSE IF MatIsScalar(b) THEN [rows |-> a.rows_, cols |-> a.cols_]
    ELSE IF a.rows_ = b.rows_ /\ (a.cols_ = 1 \/ b.cols_ = 1)
         THEN [rows |-> a.rows_, cols |-> Max(a.cols_, b.cols_)]
    ELSE IF a.cols_ = b.cols_ /\ (a.rows_ = 1 \/ b.rows_ = 1)
         THEN [rows |-> Max(a.rows_, b.rows_), cols |-> a.cols_]
    ELSE [rows |-> -1, cols |-> -1]

broadcastWhat(a, b) ==
    <<"Matrix dimensions must agree (", ToString(a.rows_), "x", ToString(a.cols_), " vs ",
      ToString(b.rows_), "x", ToString(b.cols_), ")">>

\* the position in data_ that getWithBroadcast(r, c) accesses
BroadcastOffset(m, r, c) ==
    SizeMulAdd(IF m.rows_ = 1 THEN 0 ELSE r, m.cols_, IF m.cols_ = 1 THEN 0 ELSE c)

\* getWithBroadcast makes no bounds check: a read past the end of data_ is
\* undefined
getWithBroadcast(m, r, c) ==
    IF InData(m, BroadcastOffset(m, r, c)) THEN m.data_[BroadcastOffset(m, r, c) + 1]
    ELSE JunkValue

\* does the loop over a result of shape sh read past the end of an operand?
BroadcastOutside(a, b, sh) ==
    \E i \in 0..(sh.rows - 1), j \in 0..(sh.cols - 1) :
        ~InData(a, BroadcastOffset(a, i, j)) \/ ~InData(b, BroadcastOffset(b, i, j))

ApplyOp(op, x, y) ==
    CASE op = "PLUS" -> x + y
      [] op = "MINUS" -> x - y
      [] op = "DOT_STAR" -> x * y
      [] op = "DOT_CARET" -> Pow(x, y)
      [] op = "EQ" -> IF x = y THEN 1 ELSE 0
      [] op = "NE" -> IF x # y THEN 1 ELSE 0
      [] op = "LT" -> IF x < y THEN 1 ELSE 0
      [] op = "GT" -> IF x > y THEN 1 ELSE 0
      [] op = "LE" -> IF x <= y THEN 1 ELSE 0
      [] op = "GE" -> IF x >= y THEN 1 ELSE 0
      [] op \in {"AND", "SHORT_AND"} -> IF x # 0 /\ y # 0 THEN 1 ELSE 0
      [] op \in {"OR", "SHORT_OR"} -> IF x # 0 \/ y # 0 THEN 1 ELSE 0

ElementwiseOps == {"PLUS", "MINUS", "DOT_STAR", "DOT_CARET", "EQ", "NE", "LT", "GT", "LE", "GE"}

\* the operators evalBinary computes itself, without broadcastCheck
LogicalOps == {"AND", "SHORT_AND", "OR", "SHORT_OR"}

\* operator+, operator-, elementMul, elementPow, eq, ne, lt, gt, le, ge,
\* given the shape sh that broadcastCheck returned
Elementwise(op, a, b, sh) ==
    MatrixOf(sh.rows, sh.cols,
             [i \in 1..(sh.rows * sh.cols) |->
                 ApplyOp(op, getWithBroadcast(a, (i - 1) \div sh.cols, (i - 1) % sh.cols),
                             getWithBroadcast(b, (i - 1) \div sh.cols, (i - 1) % sh.cols))])

\* operator*(double), power(double), operator-()
ScalarMul(m, s) == MatrixOf(m.rows_, m.cols_, [i \in 1..numel(m) |-> m.data_[i] * s])
power(m, s) == MatrixOf(m.rows_, m.cols_, [i \in 1..numel(m) |-> Pow(m.data_[i], s)])
Negate(m) == MatrixOf(m.rows_, m.cols_, [i \in 1..numel(m) |-> 0 - m.data_[i]])

RECURSIVE DotSum(_, _, _, _, _)
DotSum(a, b, i, j, k) ==
    IF k >= a.cols_ THEN 0 ELSE At(a, i, k) * At(b, k, j) + DotSum(a, b, i, j, k + 1)

\* operator*(const Matrix&) for non-scalar operands with matching inner
\* dimensions
MatMul(a, b) ==
    MatrixOf(a.rows_, b.cols_,
             [i \in 1..(a.rows_ * b.cols_) |->
                 DotSum(a, b, (i - 1) \div b.cols_, (i - 1) % b.cols_, 0)])

transpose(m) ==
    MatrixOf(m.cols_, m.rows_,
             [i \in 1..(m.rows_ * m.cols_) |->
                 At(m, (i - 1) % m.rows_, (i - 1) \div m.rows_)])

\* getCol(col): Matrix(rows_, 1) holding (*this)(i, col)
getCol(m, col) == MatrixOf(m.rows_, 1, [i \in 1..m.rows_ |-> At(m, i - 1, col)])

RECURSIVE SumCols(_, _)
SumCols(ms, i) == IF i > Len(ms) THEN 0 ELSE ms[i].cols_ + SumCols(ms, i + 1)
RECURSIVE SumRows(_, _)
SumRows(ms, i) == IF i > Len(ms) THEN 0 ELSE ms[i].rows_ + SumRows(ms, i + 1)

\* the input of a concatenation that holds result column c (row r), and the
\* offset of that input
RECURSIVE PieceOfCol(_, _, _, _)
PieceOfCol(ms, i, off, c) ==
    IF c < off + ms[i].cols_ THEN [i |-> i, off |-> off]
    ELSE PieceOfCol(ms, i + 1, off + ms[i].cols_, c)
RECURSIVE PieceOfRow(_, _, _, _)
PieceOfRow(ms, i, off, r) ==
    IF r < off + ms[i].rows_ THEN [i |-> i, off |-> off]
    ELSE PieceOfRow(ms, i + 1, off + ms[i].rows_, r)

horzcatOk(ms) == \A i \in 1..Len(ms) : ms[i].rows_ = ms[1].rows_ \/ MatIsEmpty(ms[i])
vertcatOk(ms) == \A i \in 1..Len(ms) : ms[i].cols_ = ms[1].cols_ \/ MatIsEmpty(ms[i])

\* horzcat of inputs that pass the row check: result(i, colOffset + j) = m(i, j);
\* positions no input writes stay 0
horzcat(ms) ==
    IF Len(ms) = 0 THEN DefaultMatrix
    ELSE LET rows == ms[1].rows_
             totalCols == SumCols(ms, 1)
         IN MatrixOf(rows, totalCols,
               [x \in 1..(rows * totalCols) |->
                   LET r == (x - 1) \div totalCols
                       c == (x - 1) % totalCols
                       p == PieceOfCol(ms, 1, 0, c)
                   IN IF r < ms[p.i].rows_ THEN At(ms[p.i], r, c - p.off) ELSE 0])

vertcat(ms) ==
    IF Len(ms) = 0 THEN DefaultMatrix
    ELSE LET cols == ms[1].cols_
             totalRows == SumRows(ms, 1)
         IN MatrixOf(totalRows, cols,
               [x \in 1..(totalRows * cols) |->
                   LET r == (x - 1) \div cols
                       c == (x - 1) % cols
                       p == PieceOfRow(ms, 1, 0, r)
                   IN IF c < ms[p.i].cols_ THEN At(ms[p.i], r - p.off, c) ELSE 0])

concatWhat == <<"Dimensions of arrays being concatenated are not consistent">>

\* generateRange for a nonzero integral step
RECURSIVE RangeValues(_, _, _)
RangeValues(v, step, stop) ==
    IF (step > 0 /\ v <= stop) \/ (step < 0 /\ v >= stop)
    THEN <<v>> \o RangeValues(v + step, step, stop)
    ELSE <<>>

generateRange(start, step, stop) ==
    LET values == RangeValues(start, step, stop) IN MatrixOf(1, Len(values), values)

----------------------------------------------------------------------------
(* The interpreter (interpreter.cpp).  st is the interpreter state:        *)
(* [envs, currentEnv_, userFunctions_, output_, ub].                       *)

RECURSIVE evalExpr(_, _)
RECURSIVE executeStmt(_, _)
RECURSIVE ExecBlock(_, _, _)
RECURSIVE EvalList(_, _, _, _)
RECURSIVE callUserFunction(_, _, _)
RECURSIVE callFunction(_, _, _)
RECURSIVE callFuncHandle(_, _, _)

\* the names registerAllBuiltins registers, as far as the model's programs
\* use them
BuiltinNames == {"disp", "error", "zeros", "reshape", "numel", "isempty", "nargin", "nargout", "clear"}

isBuiltinFunction(st, name) == name \in BuiltinNames
isUserFunction(st, name) == name \in DOMAIN st.userFunctions_
isKnownFunction(st, name) == isBuiltinFunction(st, name) \/ isUserFunction(st, name)

lookupVariable(st, name) == EnvGet(st.envs, st.currentEnv_, name)

SetVar(st, name, value) ==
    [st EXCEPT !.envs = EnvSet(st.envs, st.currentEnv_, name, value)]

\* what a display or disp call appends to the output sink
Emit(st, kind, name, value) ==
    [st EXCEPT !.output_ = Append(@, [kind |-> kind, name |-> name, value |-> value])]

\* for (auto& s : body) executeStmt(s);
ExecBlock(stmts, i, st) ==
    IF i > Len(stmts) THEN Ok(st, Null)
    ELSE Then(executeStmt(stmts[i], st), LAMBDA r : ExecBlock(stmts, i + 1, r.st))

\* for (auto& arg : arguments) args.push_back(evalExpr(arg));  val is the list
EvalList(exprs, i, st, acc) ==
    IF i > Len(exprs) THEN Ok(st, acc)
    ELSE Then(evalExpr(exprs[i], st),
              LAMBDA r : EvalList(exprs, i + 1, r.st, Append(acc, r.val)))

(* Builtins (builtins.cpp) *)

requireArgsWhat(name, args, n) ==
    <<name, " requires ", ToString(n), " argument(s), got ", ToString(Len(args))>>

\* Value::scalarDouble of a non-string value: matrix_.scalarValue()
ScalarOk(v) == ~isString(v) /\ MatIsScalar(v.matrix_)

\* Matrix::zeros(r, c): the vector constructor throws length_error when
\* rows * cols exceeds max_size()
Zeros(st, r, c) ==
    LET n == SizeMulAdd(r, c, 0)
    IN IF n > VectorMaxSize THEN StdException(st, LengthErrorWhat)
       ELSE Ok(st, makeMatrix([rows_ |-> r, cols_ |-> c, data_ |-> [i \in 1..n |-> 0]]))

requireMinArgsWhat(name, n) == <<name, " requires at least ", ToString(n), " argument(s)">>

\* Value::matrix() of a value that is neither a matrix nor a logical
notMatrixWhat == <<"Value is not a matrix">>

\* Value::scalarDouble of a value that is not a string
scalarDouble(v, st) ==
    IF isString(v) THEN Unmodelled(st)
    ELSE IF ~MatIsScalar(v.matrix_) THEN RuntimeError(st, <<"Not a scalar">>)
    ELSE Ok(st, v.matrix_.data_[1])

\* the element mat(idx) yields; a read past the end of data_ is undefined
ReadLinear(mat, idx) == IF InData(mat, idx) THEN mat.data_[idx + 1] ELSE JunkValue

\* Matrix::reshape: the element count is compared in size_t, and the result
\* is Matrix(newRows, newCols, data_)
reshape(m, newRows, newCols, st) ==
    IF SizeMulAdd(newRows, newCols, 0) # numel(m)
    THEN RuntimeError(st, <<"Cannot reshape ", ToString(m.rows_), "x", ToString(m.cols_),
                            " to ", ToString(newRows), "x", ToString(newCols)>>)
    ELSE Ok(st, makeMatrix(MatrixOf(newRows, newCols, m.data_)))

RECURSIVE ClearNames(_, _, _, _)
ClearNames(es, e, args, i) ==
    IF i > Len(args) THEN es
    ELSE ClearNames(IF isString(args[i]) /\ Len(args[i].string_) = 1
                    THEN EnvClearName(es, e, args[i].string_[1]) ELSE es,
                    e, args, i + 1)

callBuiltin(name, args, st) ==
    CASE name = "disp" ->
           IF Len(args) # 1 THEN RuntimeError(st, requireArgsWhat("disp", args, 1))
           ELSE Ok(Emit(st, "disp", "", args[1]), makeEmpty)
      [] name = "error" ->
           IF Len(args) = 0 THEN RuntimeError(st, <<"Error">>)
           ELSE IF isString(args[1]) THEN RuntimeError(st, args[1].string_)
           ELSE RuntimeError(st, <<"Error">>)
      [] name = "zeros" ->
           IF Len(args) = 0 THEN Ok(st, makeScalar(0))
           ELSE IF \E i \in 1..Min(Len(args), 2) : isString(args[i]) THEN Unmodelled(st)
           ELSE IF ~MatIsScalar(args[1].matrix_) THEN RuntimeError(st, <<"Not a scalar">>)
           ELSE IF Len(args) = 1
                THEN LET n == ToSizeT(args[1].matrix_.data_[1], st.ub) IN Zeros(st, n, n)
           ELSE IF ~MatIsScalar(args[2].matrix_) THEN RuntimeError(st, <<"Not a scalar">>)
           ELSE Zeros(st, ToSizeT(args[1].matrix_.data_[1], st.ub),
                          ToSizeT(args[2].matrix_.data_[1], st.ub))
      [] name = "reshape" ->
           IF Len(args) < 2 THEN RuntimeError(st, requireMinArgsWhat("reshape", 2))
           ELSE IF ~isNumeric(args[1]) THEN RuntimeError(st, notMatrixWhat)
           ELSE IF Len(args) = 2
                THEN IF ~isNumeric(args[2]) THEN RuntimeError(st, notMatrixWhat)
                     ELSE IF numel(args[2].matrix_) < 2 /\ st.ub.read = "crash" THEN Crash(st)
                     ELSE reshape(args[1].matrix_,
                                  ToSizeT(ReadLinear(args[2].matrix_, 0), st.ub),
                                  ToSizeT(ReadLinear(args[2].matrix_, 1), st.ub), st)
           ELSE Then(scalarDouble(args[2], st), LAMBDA r :
                    Then(scalarDouble(args[3], st), LAMBDA c :
                        reshape(args[1].matrix_, ToSizeT(r.val, st.ub),
                                ToSizeT(c.val, st.ub), st)))
      [] name = "numel" ->
           IF Len(args) # 1 THEN RuntimeError(st, requireArgsWhat("numel", args, 1))
           ELSE IF isNumeric(args[1]) THEN Ok(st, makeScalar(numel(args[1].matrix_)))
           ELSE IF isString(args[1]) THEN Unmodelled(st)
           ELSE Ok(st, makeScalar(1))
      [] name = "isempty" ->
           IF Len(args) # 1 THEN RuntimeError(st, requireArgsWhat("isempty", args, 1))
           ELSE IF isEmpty(args[1]) THEN Ok(st, makeBool(TRUE))
           ELSE IF isNumeric(args[1]) THEN Ok(st, makeBool(MatIsEmpty(args[1].matrix_)))
           ELSE IF isString(args[1]) THEN Ok(st, makeBool(args[1].string_ = <<>>))
           ELSE Ok(st, makeBool(FALSE))
      [] name = "nargin" -> Ok(st, makeScalar(0))
      [] name = "nargout" -> Ok(st, makeScalar(1))
      [] name = "clear" ->
           IF Len(args) = 0
           THEN Ok([st EXCEPT !.envs = EnvClear(st.envs, st.currentEnv_)], makeEmpty)
           ELSE Ok([st EXCEPT !.envs = ClearNames(st.envs, st.currentEnv_, args, 1)], makeEmpty)
      [] OTHER -> Unmodelled(st)

(* Function calling *)

\* for (i = 0; i < params.size() && i < args.size(); i++) funcEnv->set(params[i], args[i])
NumBound(params, args) == Min(Len(params), Len(args))

RECURSIVE BindParams(_, _, _, _, _)
BindParams(es, e, params, args, i) ==
    IF i > NumBound(params, args) THEN es
    ELSE BindParams(EnvSet(es, e, params[i], args[i]), e, params, args, i + 1)

\* seeding a return variable without asking whether it is bound
SeedReturnAlways(es, e, ret) == EnvSet(es, e, ret, makeEmpty)

\* if (!funcEnv->has(ret)) funcEnv->set(ret, Value::makeEmpty())
SeedReturn(es, e, ret) == IF ~EnvHas(es, e, ret) THEN EnvSet(es, e, ret, makeEmpty) ELSE es

RECURSIVE SeedReturns(_, _, _, _)
SeedReturns(es, e, returns, i) ==
    IF i > Len(returns) THEN es
    ELSE SeedReturns(SeedReturn(es, e, returns[i]), e, returns, i + 1)

\* a call that binds its parameters in the scope of the caller instead of a
\* fresh one
EnterCallerScope(st, func, args) ==
    LET es1 == BindParams(st.envs, st.currentEnv_, func.params, args, 1)
        es2 == SeedReturns(es1, st.currentEnv_, func.returns, 1)
    IN [st EXCEPT !.envs = es2]

\* the scope a call runs its body in: a child of the global environment
\* with the parameters, nargin, nargout and the return variables
EnterFunction(st, func, args) ==
    LET funcEnv == NextEnvId(st.envs)
        es0 == createChild(st.envs, globalEnv_)
        es1 == BindParams(es0, funcEnv, func.params, args, 1)
        es2 == EnvSet(es1, funcEnv, "nargin", makeScalar(Len(args)))
        es3 == EnvSet(es2, funcEnv, "nargout", makeScalar(1))
        es4 == SeedReturns(es3, funcEnv, func.returns, 1)
    IN [st EXCEPT !.envs = es4, !.currentEnv_ = funcEnv]

\* callUserFunction without its handler for ReturnSignal
CallCatchesNothing(exc) == FALSE

\* does the try block around the function body catch the exception?
CallCatches(exc) == exc = "ReturnSignal"

\* the value a finished call returns
CollectResult(st, funcEnv, func) ==
    IF Len(func.returns) = 0 THEN makeEmpty
    ELSE LET result == EnvGet(st.envs, funcEnv, func.returns[1])
         IN IF IsNull(result) THEN makeEmpty ELSE result

callUserFunction(func, args, st) ==
    With(EnterFunction(st, func, args), LAMBDA st1 :
        With(ExecBlock(func.body, 1, st1), LAMBDA r :
            IF r.exc # "none" /\ ~CallCatches(r.exc) THEN r
            ELSE Ok([r.st EXCEPT !.currentEnv_ = st.currentEnv_],
                    CollectResult(r.st, st1.currentEnv_, func))))

callFuncHandle(fh, args, st) ==
    IF fh.kind = "builtin" THEN callBuiltin(fh.name, args, st)
    ELSE callUserFunction(fh.def, args, st)

\* findFileFunction: no <name>.m file exists on the search path
findFileFunction(name) == NoDef
FileFunctionFound(name) == findFileFunction(name).name # ""

undefinedFunctionWhat(name) == <<"Undefined function '", name, "'">>

\* callFunction asking the user-function registry before the builtins
ResolveFunctionUserFirst(st, name) ==
    IF isUserFunction(st, name) THEN "user"
    ELSE IF isBuiltinFunction(st, name) THEN "builtin"
    ELSE "none"

\* which registry serves a call by name: builtins first, then user functions
ResolveFunction(st, name) ==
    IF isBuiltinFunction(st, name) THEN "builtin"
    ELSE IF isUserFunction(st, name) THEN "user"
    ELSE "none"

callFunction(name, args, st) ==
    With(ResolveFunction(st, name), LAMBDA which :
        CASE which = "builtin" -> callBuiltin(name, args, st)
          [] which = "user" -> callUserFunction(st.userFunctions_[name], args, st)
          [] OTHER ->
               IF FileFunctionFound(name)
               THEN callUserFunction(findFileFunction(name), args,
                        [st EXCEPT !.userFunctions_ = (name :> findFileFunction(name)) @@ @])
               ELSE RuntimeError(st, undefinedFunctionWhat(name)))

(* Expression evaluation *)

undefinedWhat(name) == <<"Undefined variable or function '", name, "'">>

evalIdentifier(expr, st) ==
    With(lookupVariable(st, expr.name), LAMBDA val :
        IF ~IsNull(val) THEN Ok(st, val)
        ELSE IF isKnownFunction(st, expr.name) THEN callFunction(expr.name, <<>>, st)
        ELSE RuntimeError(st, undefinedWhat(expr.name)))

evalUnary(expr, st) ==
    Then(evalExpr(expr.operand, st), LAMBDA r :
        CASE expr.op = "MINUS" ->
               IF isNumeric(r.val) THEN Ok(r.st, makeMatrix(Negate(r.val.matrix_)))
               ELSE RuntimeError(r.st, <<"Unary minus requires numeric operand">>)
          [] expr.op = "PLUS" -> r
          [] expr.op = "NOT" ->
               IF isNumeric(r.val)
               THEN Ok(r.st, makeMatrix(MatrixOf(r.val.matrix_.rows_, r.val.matrix_.cols_,
                           [i \in 1..numel(r.val.matrix_) |->
                               IF r.val.matrix_.data_[i] = 0 THEN 1 ELSE 0])))
               ELSE RuntimeError(r.st, <<"Logical NOT requires numeric operand">>)
          [] expr.op \in {"TRANSPOSE", "DOT_TRANSPOSE"} ->
               IF isNumeric(r.val) THEN Ok(r.st, makeMatrix(transpose(r.val.matrix_)))
               ELSE RuntimeError(r.st, <<"Transpose requires numeric operand">>)
          [] OTHER -> RuntimeError(r.st, <<"Unknown unary operator">>))

\* the numeric branch of evalBinary
NumericBinary(op, lm, rm, st) ==
    CASE op \in ElementwiseOps ->
           With(broadcastCheck(lm, rm), LAMBDA sh :
               IF sh.rows < 0 THEN RuntimeError(st, broadcastWhat(lm, rm))
               ELSE IF st.ub.read = "crash" /\ BroadcastOutside(lm, rm, sh) THEN Crash(st)
               ELSE Ok(st, makeMatrix(Elementwise(op, lm, rm, sh))))
      [] op \in LogicalOps ->
           With([rows |-> Max(lm.rows_, rm.rows_), cols |-> Max(lm.cols_, rm.cols_)],
                LAMBDA sh :
                    IF st.ub.read = "crash" /\ BroadcastOutside(lm, rm, sh) THEN Crash(st)
                    ELSE Ok(st, makeMatrix(Elementwise(op, lm, rm, sh))))
      [] op = "STAR" ->
           IF MatIsScalar(lm) THEN Ok(st, makeMatrix(ScalarMul(rm, lm.data_[1])))
           ELSE IF MatIsScalar(rm) THEN Ok(st, makeMatrix(ScalarMul(lm, rm.data_[1])))
           ELSE IF lm.cols_ # rm.rows_
                THEN RuntimeError(st,
                       <<"Inner matrix dimensions must agree for multiplication (",
                         ToString(lm.rows_), "x", ToString(lm.cols_), " * ",
                         ToString(rm.rows_), "x", ToString(rm.cols_), ")">>)
           ELSE Ok(st, makeMatrix(MatMul(lm, rm)))
      [] op = "CARET" ->
           IF MatIsScalar(rm) THEN Ok(st, makeMatrix(power(lm, rm.data_[1])))
           ELSE RuntimeError(st, <<"Matrix power requires scalar exponent">>)
      [] OTHER -> Unmodelled(st)

evalBinary(expr, st) ==
    Then(evalExpr(expr.left, st), LAMBDA l :
        Then(evalExpr(expr.right, l.st), LAMBDA r :
            IF isNumeric(l.val) /\ isNumeric(r.val)
            THEN NumericBinary(expr.op, l.val.matrix_, r.val.matrix_, r.st)
            ELSE IF isString(l.val) /\ isString(r.val) /\ expr.op = "EQ"
                 THEN Ok(r.st, makeBool(l.val.string_ = r.val.string_))
            ELSE IF isString(l.val) /\ isString(r.val) /\ expr.op = "NE"
                 THEN Ok(r.st, makeBool(l.val.string_ # r.val.string_))
            ELSE RuntimeError(r.st, <<"Unsupported operand types for binary operation">>)))

\* the elements of one row of a matrix literal, as matrices; val is the list
RECURSIVE EvalRow(_, _, _, _)
EvalRow(row, i, st, acc) ==
    IF i > Len(row) THEN Ok(st, acc)
    ELSE Then(evalExpr(row[i], st), LAMBDA r :
             IF isNumeric(r.val) THEN EvalRow(row, i + 1, r.st, Append(acc, r.val.matrix_))
             ELSE IF isString(r.val) THEN Unmodelled(r.st)
             ELSE RuntimeError(r.st, <<"Invalid element in matrix literal">>))

RECURSIVE EvalRows(_, _, _, _)
EvalRows(rows, i, st, acc) ==
    IF i > Len(rows) THEN Ok(st, acc)
    ELSE Then(EvalRow(rows[i], 1, st, <<>>),
              LAMBDA r : EvalRows(rows, i + 1, r.st, Append(acc, r.val)))

evalMatrix(expr, st) ==
    IF Len(expr.rows) = 0 THEN Ok(st, makeMatrix(DefaultMatrix))
    ELSE Then(EvalRows(expr.rows, 1, st, <<>>), LAMBDA ev :
             IF \E i \in 1..Len(ev.val) : Len(ev.val[i]) # 1 /\ ~horzcatOk(ev.val[i])
             THEN RuntimeError(ev.st, concatWhat)
             ELSE With([i \in 1..Len(ev.val) |->
                           IF Len(ev.val[i]) = 1 THEN ev.val[i][1] ELSE horzcat(ev.val[i])],
                       LAMBDA rowMatrices :
                           IF Len(rowMatrices) = 1 THEN Ok(ev.st, makeMatrix(rowMatrices[1]))
                           ELSE IF ~vertcatOk(rowMatrices) THEN RuntimeError(ev.st, concatWhat)
                           ELSE Ok(ev.st, makeMatrix(vertcat(rowMatrices)))))

\* the elements of a cell literal in row-major order; val is the list
RECURSIVE EvalCells(_, _, _, _)
EvalCells(rows, i, st, acc) ==
    IF i > Len(rows) THEN Ok(st, acc)
    ELSE Then(EvalList(rows[i], 1, st, <<>>),
              LAMBDA r : EvalCells(rows, i + 1, r.st, acc \o r.val))

\* evalCellArray for a literal whose rows have the length of the first row
evalCellArray(expr, st) ==
    IF Len(expr.rows) = 0 THEN Ok(st, makeCellArray(DefaultCell))
    ELSE IF \E i \in 1..Len(expr.rows) : Len(expr.rows[i]) # Len(expr.rows[1])
         THEN Unmodelled(st)
    ELSE Then(EvalCells(expr.rows, 1, st, <<>>), LAMBDA ev :
             Ok(ev.st, makeCellArray([rows |-> Len(expr.rows), cols |-> Len(expr.rows[1]),
                                      data |-> ev.val])))

(* Array indexing (evalCall) *)

indexWhat == <<"Index exceeds array dimensions">>

\* static_cast<size_t>(d) - 1
ZeroBased(d, ub) == SizeSub(ToSizeT(d, ub), 1)

\* the bounds check of linear indexing
LinearInRange(mat, i) == ~(i >= numel(mat))

\* A(k), k scalar or vector
IndexLinear(mat, idxMat, st) ==
    IF MatIsScalar(idxMat)
    THEN With(ZeroBased(idxMat.data_[1], st.ub), LAMBDA i :
             IF ~LinearInRange(mat, i) THEN RuntimeError(st, indexWhat)
             ELSE Ok(st, makeScalar(mat.data_[i + 1])))
    ELSE IF \E k \in 1..numel(idxMat) : ~LinearInRange(mat, ZeroBased(idxMat.data_[k], st.ub))
         THEN RuntimeError(st, indexWhat)
         ELSE Ok(st, makeMatrix(MatrixOf(idxMat.rows_, idxMat.cols_,
                    [k \in 1..numel(idxMat) |->
                        mat.data_[ZeroBased(idxMat.data_[k], st.ub) + 1]])))

\* rowIdx / colIdx of 2-D indexing: all of the axis for the empty value, the
\* converted positions for a numeric argument, nothing otherwise
AxisIndices(arg, extent, ub) ==
    IF isEmpty(arg) THEN [i \in 1..extent |-> i - 1]
    ELSE IF isNumeric(arg)
         THEN [i \in 1..numel(arg.matrix_) |-> ZeroBased(arg.matrix_.data_[i], ub)]
    ELSE <<>>

\* the position in data_ that mat(r, c) accesses: no bounds check is made
Offset2D(mat, r, c) == SizeMulAdd(r, mat.cols_, c)

\* the element mat(r, c) yields; a read past the end of data_ is undefined
Read2D(mat, r, c) ==
    With(Offset2D(mat, r, c),
         LAMBDA at : IF InData(mat, at) THEN mat.data_[at + 1] ELSE JunkValue)

\* A(r, c)
Index2D(mat, args, st) ==
    With(AxisIndices(args[1], mat.rows_, st.ub), LAMBDA rowIdx :
        With(AxisIndices(args[2], mat.cols_, st.ub), LAMBDA colIdx :
            IF st.ub.read = "crash"
               /\ \E i \in 1..Len(rowIdx), j \in 1..Len(colIdx) :
                      ~InData(mat, Offset2D(mat, rowIdx[i], colIdx[j]))
            THEN Crash(st)
            ELSE IF Len(rowIdx) = 1 /\ Len(colIdx) = 1
                 THEN Ok(st, makeScalar(Read2D(mat, rowIdx[1], colIdx[1])))
            ELSE Ok(st, makeMatrix(MatrixOf(Len(rowIdx), Len(colIdx),
                       [x \in 1..(Len(rowIdx) * Len(colIdx)) |->
                           Read2D(mat, rowIdx[((x - 1) \div Len(colIdx)) + 1],
                                       colIdx[((x - 1) % Len(colIdx)) + 1])])))))

\* what evalCall does with name(args) once the arguments are evaluated:
\* "handle" calls the handle the variable holds, "linear" and "2d" index the
\* variable, "flatten" is A(:), "cell" and "struct" raise the unsupported
\* indexing errors, "function" calls callFunction
CallKind(st, name, args) ==
    With(lookupVariable(st, name), LAMBDA var :
        IF ~IsNull(var) /\ isFuncHandle(var) THEN "handle"
        ELSE IF ~IsNull(var) /\ ~isKnownFunction(st, name)
             THEN IF isNumeric(var)
                  THEN IF Len(args) = 1
                       THEN IF isEmpty(args[1])
                               \/ (isMatrix(args[1]) /\ MatIsEmpty(args[1].matrix_))
                            THEN "flatten"
                            ELSE IF isNumeric(args[1]) THEN "linear" ELSE "function"
                       ELSE IF Len(args) = 2 THEN "2d" ELSE "function"
                  ELSE IF isCellArray(var) THEN "cell"
                  ELSE IF isStruct(var) THEN "struct"
                  ELSE "function"
        ELSE "function")

\* name(args): the arguments are evaluated first, then the name is looked up
CallNamed(name, a) ==
    With(lookupVariable(a.st, name), LAMBDA var :
        With(CallKind(a.st, name, a.val), LAMBDA kind :
            CASE kind = "handle" -> callFuncHandle(var.funcHandle_, a.val, a.st)
              [] kind = "flatten" ->
                   Ok(a.st, makeMatrix(MatrixOf(numel(var.matrix_), 1, var.matrix_.data_)))
              [] kind = "linear" -> IndexLinear(var.matrix_, a.val[1].matrix_, a.st)
              [] kind = "2d" -> Index2D(var.matrix_, a.val, a.st)
              [] kind = "cell" ->
                   RuntimeError(a.st,
                     <<"Cell array () indexing not fully supported yet, use {} instead">>)
              [] kind = "struct" ->
                   RuntimeError(a.st, <<"Struct array indexing not yet supported">>)
              [] OTHER -> callFunction(name, a.val, a.st)))

evalCall(expr, st) ==
    IF expr.callee.k = "Identifier"
    THEN Then(EvalList(expr.arguments, 1, st, <<>>),
              LAMBDA a : CallNamed(expr.callee.name, a))
    ELSE Then(evalExpr(expr.callee, st), LAMBDA c :
             IF isFuncHandle(c.val)
             THEN Then(EvalList(expr.arguments, 1, c.st, <<>>),
                       LAMBDA a : callFuncHandle(c.val.funcHandle_, a.val, a.st))
             ELSE RuntimeError(c.st, <<"Cannot call non-function value">>))

\* cell.data[i], or the empty value for a slot that holds no value
CellSlot(cell, i) == IF IsNull(cell.data[i + 1]) THEN makeEmpty ELSE cell.data[i + 1]

\* c{i} and c{r, c} once the indices are evaluated; at(r, c) makes no bounds
\* check
CellRead(cell, indices, st) ==
    IF Len(indices) = 1 /\ isScalar(indices[1])
    THEN With(ZeroBased(indices[1].matrix_.data_[1], st.ub), LAMBDA i :
             IF i >= Len(cell.data)
             THEN RuntimeError(st, <<"Index exceeds cell array dimensions">>)
             ELSE Ok(st, CellSlot(cell, i)))
    ELSE IF Len(indices) = 2 /\ isScalar(indices[1]) /\ isScalar(indices[2])
    THEN With(SizeMulAdd(ZeroBased(indices[1].matrix_.data_[1], st.ub), cell.cols,
                         ZeroBased(indices[2].matrix_.data_[1], st.ub)),
              LAMBDA at :
                  IF at < Len(cell.data) THEN Ok(st, CellSlot(cell, at))
                  ELSE IF st.ub.read = "crash" THEN Crash(st)
                  ELSE Ok(st, makeEmpty))
    ELSE RuntimeError(st, <<"Cell array indexing error">>)

evalCellIndex(expr, st) ==
    Then(evalExpr(expr.object, st), LAMBDA obj :
        IF ~isCellArray(obj.val)
        THEN RuntimeError(obj.st, <<"Cell indexing requires a cell array">>)
        ELSE Then(EvalList(expr.indices, 1, obj.st, <<>>),
                  LAMBDA a : CellRead(obj.val.cellArray_, a.val, a.st)))

evalDot(expr, st) ==
    Then(evalExpr(expr.object, st), LAMBDA o :
        IF isStruct(o.val)
        THEN IF expr.field \in DOMAIN o.val.struct_
             THEN Ok(o.st, o.val.struct_[expr.field])
             ELSE RuntimeError(o.st, <<"Reference to non-existent field '", expr.field, "'">>)
        ELSE RuntimeError(o.st, <<"Dot access requires a struct">>))

evalColon(expr, st) ==
    IF IsNil(expr.start) /\ IsNil(expr.stop) THEN Ok(st, makeEmpty)
    ELSE IF IsNil(expr.start) THEN Ok(st, makeEmpty)
    ELSE IF IsNil(expr.stop) THEN evalExpr(expr.start, st)
    ELSE Then(evalExpr(expr.start, st), LAMBDA a :
             IF isString(a.val) THEN Unmodelled(a.st)
             ELSE IF ~MatIsScalar(a.val.matrix_) THEN RuntimeError(a.st, <<"Not a scalar">>)
             ELSE Then(evalExpr(expr.stop, a.st), LAMBDA b :
                      IF isString(b.val) THEN Unmodelled(b.st)
                      ELSE IF ~MatIsScalar(b.val.matrix_)
                           THEN RuntimeError(b.st, <<"Not a scalar">>)
                      ELSE IF ~IsNil(expr.step) THEN Unmodelled(b.st)
                      ELSE Ok(b.st, makeMatrix(generateRange(a.val.matrix_.data_[1], 1,
                                                             b.val.matrix_.data_[1])))))

\* the FunctionDef an anonymous function is wrapped in: body  ans = <expr>
AnonDef(expr) ==
    FunctionDef("<anonymous>", expr.params, <<"ans">>, <<Assign(Id("ans"), expr.body, FALSE)>>)

evalAnonFunc(expr, st) ==
    Ok(st, makeFuncHandle([name |-> "<anonymous>", kind |-> "user", def |-> AnonDef(expr)]))

evalFuncHandle(expr, st) ==
    IF expr.name \in BuiltinNames
    THEN Ok(st, makeFuncHandle([name |-> expr.name, kind |-> "builtin", def |-> NoDef]))
    ELSE IF expr.name \in DOMAIN st.userFunctions_
         THEN Ok(st, makeFuncHandle([name |-> expr.name, kind |-> "user",
                                     def |-> st.userFunctions_[expr.name]]))
    ELSE RuntimeError(st, undefinedFunctionWhat(expr.name))

evalExpr(expr, st) ==
    CASE expr.k = "NumberLiteral" -> Ok(st, makeScalar(expr.value))
      [] expr.k = "StringLiteral" -> Ok(st, makeString(expr.value))
      [] expr.k = "BoolLiteral" -> Ok(st, makeBool(expr.value))
      [] expr.k = "Identifier" -> evalIdentifier(expr, st)
      [] expr.k = "UnaryExpr" -> evalUnary(expr, st)
      [] expr.k = "BinaryExpr" -> evalBinary(expr, st)
      [] expr.k = "MatrixLiteral" -> evalMatrix(expr, st)
      [] expr.k = "CellArrayLiteral" -> evalCellArray(expr, st)
      [] expr.k = "CallExpr" -> evalCall(expr, st)
      [] expr.k = "DotExpr" -> evalDot(expr, st)
      [] expr.k = "CellIndexExpr" -> evalCellIndex(expr, st)
      [] expr.k = "ColonExpr" -> evalColon(expr, st)
      [] expr.k = "AnonFuncExpr" -> evalAnonFunc(expr, st)
      [] expr.k = "FuncHandleExpr" -> evalFuncHandle(expr, st)
      [] OTHER -> Unmodelled(st)

(* Statement execution *)

execExprStmt(stmt, st) ==
    Then(evalExpr(stmt.expression, st), LAMBDA r :
        IF stmt.printResult /\ ~IsNull(r.val) /\ ~isEmpty(r.val)
        THEN Ok(Emit(SetVar(r.st, "ans", r.val), "display", "ans", r.val), Null)
        ELSE Ok(r.st, Null))

(* Assignment to a part of a variable *)

\* every variable bound to the value held, in any scope, observing value in
\* its place (values carry no identity here: the variables bound to a value
\* are those that hold an equal one)
Shared(es, held, value) ==
    [e \in DOMAIN es |->
        [es[e] EXCEPT !.variables_ =
            [n \in DOMAIN es[e].variables_ |->
                IF es[e].variables_[n] = held THEN value ELSE es[e].variables_[n]]]]

\* a store into the value the variable is bound to
StoreInPlace(st, name, value) ==
    [st EXCEPT !.envs = Shared(st.envs, lookupVariable(st, name), value)]

\* currentEnv_->set(name, copy): the variable is bound to a changed copy of
\* the value it held; the value it held stays as it was
Rebind(st, name, value) == SetVar(st, name, value)

assignDot(target, value, st) ==
    IF target.object.k = "Identifier"
    THEN With(lookupVariable(st, target.object.name), LAMBDA obj :
             IF IsNull(obj) \/ isEmpty(obj)
             THEN Ok(SetVar(st, target.object.name, makeStruct(target.field :> value)), Null)
             ELSE IF isStruct(obj)
                  THEN Ok(Rebind(st, target.object.name,
                                 makeStruct((target.field :> value) @@ obj.struct_)), Null)
             ELSE RuntimeError(st, <<"Cannot set field on non-struct value">>))
    ELSE RuntimeError(st, <<"Dot assignment requires an identifier base">>)

(* Cell index assignment (assignCellIndex) *)

\* cell.data.resize(n): the new slots hold no value
CellResize(data, n) == [i \in 1..n |-> IF i <= Len(data) THEN data[i] ELSE Null]

\* cell.data[i] = value, no bounds check is made
CellStore(cell, i, value, st) ==
    IF i < Len(cell.data) THEN Ok(st, [cell EXCEPT !.data[i + 1] = value])
    ELSE IF st.ub.read = "crash" THEN Crash(st)
    ELSE Ok(st, cell)

\* the branch of assignCellIndex for a variable that is missing or the empty
\* value
CreateCell(indices, value, st) ==
    IF Len(indices) = 1 /\ isScalar(indices[1])
    THEN With(ToSizeT(indices[1].matrix_.data_[1], st.ub), LAMBDA i :
             IF i > VectorMaxSize THEN StdException(st, LengthErrorWhat)
             ELSE CellStore([rows |-> 1, cols |-> i, data |-> CellResize(<<>>, i)],
                            SizeSub(i, 1), value, st))
    ELSE Ok(st, DefaultCell)

\* the branch of assignCellIndex for a cell array
GrowCell(cell, indices, value, st) ==
    IF Len(indices) = 1 /\ isScalar(indices[1])
    THEN With(ZeroBased(indices[1].matrix_.data_[1], st.ub), LAMBDA i :
             IF i >= Len(cell.data)
             THEN IF SizeMulAdd(i, 1, 1) > VectorMaxSize THEN StdException(st, LengthErrorWhat)
                  ELSE CellStore([cell EXCEPT !.data = CellResize(@, SizeMulAdd(i, 1, 1)),
                                              !.cols = SizeMulAdd(i, 1, 1)],
                                 i, value, st)
             ELSE CellStore(cell, i, value, st))
    ELSE Ok(st, cell)

assignCellIndex(target, value, st) ==
    IF target.object.k # "Identifier"
    THEN RuntimeError(st, <<"Cell index assignment requires an identifier">>)
    ELSE With(lookupVariable(st, target.object.name), LAMBDA obj :
             IF IsNull(obj) \/ isEmpty(obj)
             THEN Then(EvalList(target.indices, 1, st, <<>>), LAMBDA a :
                      Then(CreateCell(a.val, value, a.st), LAMBDA c :
                          Ok(SetVar(a.st, target.object.name, makeCellArray(c.val)), Null)))
             ELSE IF isCellArray(obj)
             THEN Then(EvalList(target.indices, 1, st, <<>>), LAMBDA a :
                      Then(GrowCell(obj.cellArray_, a.val, value, a.st), LAMBDA c :
                          Ok(Rebind(a.st, target.object.name, makeCellArray(c.val)), Null)))
             ELSE Ok(st, Null))

(* Indexed assignment (assignIndexed) *)

\* mat(at) = val, no bounds check is made: a store past the end of data_ is
\* undefined (the process dies, or the store lands outside the matrix)
StoreAt(mat, at, val, st) ==
    IF InData(mat, at) THEN Ok(st, [mat EXCEPT !.data_[at + 1] = val])
    ELSE IF st.ub.read = "crash" THEN Crash(st)
    ELSE Ok(st, mat)

\* Matrix(rows, cols, 0.0): data_(rows * cols, 0.0), the product taken in
\* size_t
ZeroMatrix(st, rows, cols) ==
    With(SizeMulAdd(rows, cols, 0), LAMBDA n :
        IF n > VectorMaxSize THEN StdException(st, LengthErrorWhat)
        ELSE Ok(st, MatrixOf(rows, cols, [i \in 1..n |-> 0])))

\* if (idx >= mat.numel()) { Matrix newMat(1, idx + 1, 0.0); newMat(i) = mat(i)
\* for every i < mat.numel(); mat = newMat; }
GrowLinear(mat, idx, st) ==
    IF ~(idx >= numel(mat)) THEN Ok(st, mat)
    ELSE Then(ZeroMatrix(st, 1, SizeMulAdd(idx, 1, 1)), LAMBDA z :
             IF numel(mat) > numel(z.val) /\ st.ub.read = "crash" THEN Crash(st)
             ELSE Ok(st, [z.val EXCEPT !.data_ =
                             [i \in 1..numel(z.val) |->
                                 IF i <= numel(mat) THEN mat.data_[i] ELSE 0]]))

\* newMat(i, j) = mat(i, j) for every element of mat, in row-major order
CopyInto(newMat, mat) ==
    [newMat EXCEPT !.data_ =
        [x \in 1..numel(newMat) |->
            LET from == {p \in (0..(mat.rows_ - 1)) \X (0..(mat.cols_ - 1)) :
                            Offset2D(newMat, p[1], p[2]) = x - 1}
                lastOf == CHOOSE p \in from :
                              \A q \in from : q[1] < p[1] \/ (q[1] = p[1] /\ q[2] <= p[2])
            IN IF from = {} THEN 0 ELSE Read2D(mat, lastOf[1], lastOf[2])]]

\* newRows = max(rows, r + 1), newCols = max(cols, c + 1); the matrix is
\* replaced by zeros(newRows, newCols) holding its elements when either grew
Grow2D(mat, r, c, st) ==
    With(Max(mat.rows_, SizeMulAdd(r, 1, 1)), LAMBDA newRows :
        With(Max(mat.cols_, SizeMulAdd(c, 1, 1)), LAMBDA newCols :
            IF ~(newRows > mat.rows_ \/ newCols > mat.cols_) THEN Ok(st, mat)
            ELSE Then(ZeroMatrix(st, newRows, newCols), LAMBDA z :
                     IF st.ub.read = "crash"
                        /\ \E i \in 0..(mat.rows_ - 1), j \in 0..(mat.cols_ - 1) :
                               ~InData(z.val, Offset2D(z.val, i, j))
                     THEN Crash(st)
                     ELSE Ok(st, CopyInto(z.val, mat)))))

\* the branch of assignIndexed for a variable that is missing or the empty
\* value, with two scalar indices: zeros(r, c) with the value stored at
\* (r - 1, c - 1) when the value is a scalar
CreateIndexed(r, c, value, st) ==
    Then(ZeroMatrix(st, r, c), LAMBDA z :
        IF ~isScalar(value) THEN z
        ELSE StoreAt(z.val, SizeMulAdd(SizeSub(r, 1), c, SizeSub(c, 1)),
                     value.matrix_.data_[1], st))

\* the branch of assignIndexed for a numeric variable; val is the matrix that
\* is stored back
AssignElement(mat, indices, value, st) ==
    IF Len(indices) = 1 /\ isScalar(indices[1])
    THEN With(ZeroBased(indices[1].matrix_.data_[1], st.ub), LAMBDA idx :
             Then(GrowLinear(mat, idx, st), LAMBDA g :
                 Then(scalarDouble(value, st), LAMBDA d : StoreAt(g.val, idx, d.val, st))))
    ELSE IF Len(indices) = 2 /\ isScalar(indices[1]) /\ isScalar(indices[2])
    THEN With(ZeroBased(indices[1].matrix_.data_[1], st.ub), LAMBDA r :
             With(ZeroBased(indices[2].matrix_.data_[1], st.ub), LAMBDA c :
                 Then(Grow2D(mat, r, c, st), LAMBDA g :
                     Then(scalarDouble(value, st), LAMBDA d :
                         StoreAt(g.val, Offset2D(g.val, r, c), d.val, st)))))
    ELSE Ok(st, mat)

\* assignIndexed once the variable is looked up and the indices are evaluated
AssignAt(name, var, indices, value, st) ==
    IF (IsNull(var) \/ isEmpty(var))
       /\ Len(indices) = 2 /\ isScalar(indices[1]) /\ isScalar(indices[2])
    THEN Then(CreateIndexed(ToSizeT(indices[1].matrix_.data_[1], st.ub),
                            ToSizeT(indices[2].matrix_.data_[1], st.ub), value, st),
              LAMBDA m : Ok(SetVar(st, name, makeMatrix(m.val)), Null))
    ELSE IF ~IsNull(var) /\ isNumeric(var)
    THEN Then(AssignElement(var.matrix_, indices, value, st),
              LAMBDA m : Ok(Rebind(st, name, makeMatrix(m.val)), Null))
    ELSE Ok(st, Null)

assignIndexed(target, value, st) ==
    IF target.callee.k # "Identifier"
    THEN RuntimeError(st, <<"Invalid indexed assignment target">>)
    ELSE With(lookupVariable(st, target.callee.name), LAMBDA var :
             Then(EvalList(target.arguments, 1, st, <<>>), LAMBDA a :
                 AssignAt(target.callee.name, var, a.val, value, a.st)))

\* if (stmt.printResult) the stored variable, when there is one, is displayed
DisplayStored(target, printResult, st) ==
    With(IF target.callee.k = "Identifier" THEN lookupVariable(st, target.callee.name)
         ELSE Null,
         LAMBDA stored :
             IF printResult /\ ~IsNull(stored)
             THEN Ok(Emit(st, "display", target.callee.name, stored), Null)
             ELSE Ok(st, Null))

execAssign(stmt, st) ==
    Then(evalExpr(stmt.value, st), LAMBDA r :
        CASE stmt.target.k = "Identifier" ->
               With(SetVar(r.st, stmt.target.name, r.val), LAMBDA st1 :
                   IF stmt.printResult /\ ~IsNull(r.val) /\ ~isEmpty(r.val)
                   THEN Ok(Emit(st1, "display", stmt.target.name, r.val), Null)
                   ELSE Ok(st1, Null))
          [] stmt.target.k = "DotExpr" -> assignDot(stmt.target, r.val, r.st)
          [] stmt.target.k = "CallExpr" ->
               Then(assignIndexed(stmt.target, r.val, r.st),
                    LAMBDA a : DisplayStored(stmt.target, stmt.printResult, a.st))
          [] stmt.target.k = "CellIndexExpr" -> assignCellIndex(stmt.target, r.val, r.st)
          [] OTHER -> RuntimeError(r.st, <<"Invalid assignment target">>))

toBoolWhat == <<"Cannot convert value to logical">>

\* Value::toBool succeeds on numeric values and strings only
CanToBool(v) == isNumeric(v) \/ isString(v)
toBool(v) == IF isNumeric(v) THEN MatToBool(v.matrix_) ELSE v.string_ # <<>>

RECURSIVE IfBranches(_, _, _)
IfBranches(branches, i, st) ==
    IF i > Len(branches) THEN Ok(st, Null)
    ELSE IF IsNil(branches[i].condition) THEN ExecBlock(branches[i].body, 1, st)
    ELSE Then(evalExpr(branches[i].condition, st), LAMBDA c :
             IF ~CanToBool(c.val) THEN RuntimeError(c.st, toBoolWhat)
             ELSE IF toBool(c.val) THEN ExecBlock(branches[i].body, 1, c.st)
             ELSE IfBranches(branches, i + 1, c.st))

execIf(stmt, st) == IfBranches(stmt.branches, 1, st)

\* execFor without its handler for BreakSignal
ForCatchWithoutBreak(exc) == IF exc = "ContinueSignal" THEN "continue" ELSE "propagate"

\* what a loop does with the exception its body threw: "return" leaves the
\* loop, "continue" goes on with the next iteration, "propagate" lets the
\* exception escape
ForCatch(exc) ==
    IF exc = "BreakSignal" THEN "return"
    ELSE IF exc = "ContinueSignal" THEN "continue"
    ELSE "propagate"

WhileCatch(exc) ==
    IF exc = "BreakSignal" THEN "return"
    ELSE IF exc = "ContinueSignal" THEN "continue"
    ELSE "propagate"

\* the value the loop variable is bound to in iteration j (0-indexed column)
LoopValue(mat, j) ==
    IF mat.rows_ = 1 THEN makeScalar(At(mat, 0, j)) ELSE makeMatrix(getCol(mat, j))

\* a loop that stops one column early
LoopCountOneShort(mat) == mat.cols_ - 1

\* the number of iterations of a for loop over mat
LoopCount(mat) == mat.cols_

\* for (size_t j = 0; j < mat.cols(); j++) { ... }
RECURSIVE ForColumns(_, _, _, _)
ForColumns(stmt, mat, j, st) ==
    IF ~(j < LoopCount(mat)) THEN Ok(st, Null)
    ELSE With(ExecBlock(stmt.body, 1, SetVar(st, stmt.variable, LoopValue(mat, j))),
              LAMBDA r :
                  IF r.exc = "none" THEN ForColumns(stmt, mat, j + 1, r.st)
                  ELSE CASE ForCatch(r.exc) = "return" -> Ok(r.st, Null)
                         [] ForCatch(r.exc) = "continue" -> ForColumns(stmt, mat, j + 1, r.st)
                         [] OTHER -> r)

\* may a for loop iterate over the value?
IsForRange(v) == isMatrix(v) \/ isLogical(v)

execFor(stmt, st) ==
    Then(evalExpr(stmt.range, st), LAMBDA rangeVal :
        IF IsForRange(rangeVal.val)
        THEN ForColumns(stmt, rangeVal.val.matrix_, 0, rangeVal.st)
        ELSE RuntimeError(rangeVal.st, <<"For loop requires numeric range">>))

RECURSIVE execWhile(_, _)
execWhile(stmt, st) ==
    Then(evalExpr(stmt.condition, st), LAMBDA c :
        IF ~CanToBool(c.val) THEN RuntimeError(c.st, toBoolWhat)
        ELSE IF ~toBool(c.val) THEN Ok(c.st, Null)
        ELSE With(ExecBlock(stmt.body, 1, c.st), LAMBDA r :
                 IF r.exc = "none" THEN execWhile(stmt, r.st)
                 ELSE CASE WhileCatch(r.exc) = "return" -> Ok(r.st, Null)
                        [] WhileCatch(r.exc) = "continue" -> execWhile(stmt, r.st)
                        [] OTHER -> r))

\* a try statement with a handler for everything thrown: catch (...)
TryCatchesAll(exc) == exc # "crash"

\* the handlers of execTryCatch: catch (RuntimeError&), catch (std::exception&)
TryCatches(exc) == exc \in {"RuntimeError", "std::exception"}

\* execTryCatch with the identifier of the first handler in both handlers
ExcIdentifierRuntimeOnly(exc) == <<"MatFree:runtime">>

\* the identifier field of the struct bound to the catch variable
ExcIdentifier(exc) ==
    IF exc = "RuntimeError" THEN <<"MatFree:runtime">> ELSE <<"MatFree:internal">>

\* the MException-like struct
ExcStruct(exc, what) ==
    makeStruct(("message" :> makeString(what)) @@ ("identifier" :> makeString(ExcIdentifier(exc))))

\* the state the catch body starts in
BindCatchVar(st, catchVar, exc, what) ==
    IF catchVar # "" THEN SetVar(st, catchVar, ExcStruct(exc, what)) ELSE st

execTryCatch(stmt, st) ==
    With(ExecBlock(stmt.tryBody, 1, st), LAMBDA r :
        IF r.exc = "none" THEN r
        ELSE IF TryCatches(r.exc)
             THEN ExecBlock(stmt.catchBody, 1, BindCatchVar(r.st, stmt.catchVar, r.exc, r.msg))
        ELSE r)

execFunctionDef(stmt, st) ==
    Ok([st EXCEPT !.userFunctions_ = (stmt.def.name :> stmt.def) @@ @], Null)

RECURSIVE DeclareGlobals(_, _, _, _)
DeclareGlobals(es, e, names, i) ==
    IF i > Len(names) THEN es
    ELSE DeclareGlobals(declareGlobal(es, e, names[i]), e, names, i + 1)

execGlobal(stmt, st) ==
    Ok([st EXCEPT !.envs = DeclareGlobals(st.envs, st.currentEnv_, stmt.variables, 1)], Null)

executeStmt(stmt, st) ==
    CASE stmt.k = "ExprStmt" -> execExprStmt(stmt, st)
      [] stmt.k = "AssignStmt" -> execAssign(stmt, st)
      [] stmt.k = "IfStmt" -> execIf(stmt, st)
      [] stmt.k = "ForStmt" -> execFor(stmt, st)
      [] stmt.k = "WhileStmt" -> execWhile(stmt, st)
      [] stmt.k = "TryCatchStmt" -> execTryCatch(stmt, st)
      [] stmt.k = "FunctionDef" -> execFunctionDef(stmt, st)
      [] stmt.k = "GlobalStmt" -> execGlobal(stmt, st)
      [] stmt.k = "ReturnStmt" -> Throw(st, "ReturnSignal", <<>>)
      [] stmt.k = "BreakStmt" -> Throw(st, "BreakSignal", <<>>)
      [] stmt.k = "ContinueStmt" -> Throw(st, "ContinueSignal", <<>>)
      [] OTHER -> Unmodelled(st)

----------------------------------------------------------------------------
(* The lexer (lexer.cpp).  A source text is a sequence of characters, each *)
(* a string of length one; NUL is the character '\0' that current and peek *)
(* return past the end.  A token carries its type, its lexeme, its numeric *)
(* value and, in place of line and col, the offset of its first character. *)

NUL == ""
Digits == {"0", "1", "2", "3", "4", "5", "6", "7", "8", "9"}
Letters ==
    {"a", "b", "c", "d", "e", "f", "g", "h", "i", "j", "k", "l", "m",
     "n", "o", "p", "q", "r", "s", "t", "u", "v", "w", "x", "y", "z",
     "A", "B", "C", "D", "E", "F", "G", "H", "I", "J", "K", "L", "M",
     "N", "O", "P", "Q", "R", "S", "T", "U", "V", "W", "X", "Y", "Z"}
isdigit(c) == c \in Digits
isalpha(c) == c \in Letters
isalnum(c) == isalpha(c) \/ isdigit(c)

keywords_ ==
    [kw \in {"if", "elseif", "else", "end", "for", "while", "switch", "case",
             "otherwise", "try", "catch", "function", "return", "break",
             "continue", "global", "persistent", "classdef", "properties",
             "methods", "events", "enumeration", "true", "false"} |->
        CASE kw = "if" -> "IF"
          [] kw = "elseif" -> "ELSEIF"
          [] kw = "else" -> "ELSE"
          [] kw = "end" -> "END"
          [] kw = "for" -> "FOR"
          [] kw = "while" -> "WHILE"
          [] kw = "switch" -> "SWITCH"
          [] kw = "case" -> "CASE"
          [] kw = "otherwise" -> "OTHERWISE"
          [] kw = "try" -> "TRY"
          [] kw = "catch" -> "CATCH"
          [] kw = "function" -> "FUNCTION"
          [] kw = "return" -> "RETURN"
          [] kw = "break" -> "BREAK"
          [] kw = "continue" -> "CONTINUE"
          [] kw = "global" -> "GLOBAL"
          [] kw = "persistent" -> "PERSISTENT"
          [] kw = "classdef" -> "CLASSDEF"
          [] kw = "properties" -> "PROPERTIES"
          [] kw = "methods" -> "METHODS"
          [] kw = "events" -> "EVENTS"
          [] kw = "enumeration" -> "ENUMERATION"
          [] kw = "true" -> "TRUE_KW"
          [] kw = "false" -> "FALSE_KW"]

Token(type, lexeme, at) ==
    [type |-> type, lexeme |-> lexeme, numValue |-> 0, isComplex |-> FALSE, at |-> at]

\* Lexer::Lexer: lastToken_.type = NEWLINE, as if at the beginning of a line
FirstLastToken == Token("NEWLINE", "", 0)

current(source_, pos_) == IF pos_ > Len(source_) THEN NUL ELSE source_[pos_]
peek(source_, pos_, offset) == current(source_, pos_ + offset)
LexAtEnd(source_, pos_) == pos_ > Len(source_)

\* the outcome of a scanning step: the token made (which is lastToken_ from
\* then on) and the position behind it, or the LexerError thrown
Scanned(tok, pos_) == [exc |-> "none", msg |-> <<>>, tok |-> tok, pos_ |-> pos_]
LexerError(msg, pos_) ==
    [exc |-> "LexerError", msg |-> msg, tok |-> Token("EOF_TOKEN", "", pos_), pos_ |-> pos_]

\* the position of the next '\n' at or after pos_, or the end
RECURSIVE skipLineComment(_, _)
skipLineComment(source_, pos_) ==
    IF ~LexAtEnd(source_, pos_) /\ current(source_, pos_) # "\n"
    THEN skipLineComment(source_, pos_ + 1)
    ELSE pos_

\* the position behind the %} that closes the block comment, or the end
RECURSIVE skipBlockComment(_, _, _)
skipBlockComment(source_, pos_, depth) ==
    IF LexAtEnd(source_, pos_) \/ depth <= 0 THEN pos_
    ELSE IF current(source_, pos_) = "%" /\ peek(source_, pos_, 1) = "{"
    THEN skipBlockComment(source_, pos_ + 2, depth + 1)
    ELSE IF current(source_, pos_) = "%" /\ peek(source_, pos_, 1) = "}"
    THEN skipBlockComment(source_, pos_ + 2, depth - 1)
    ELSE skipBlockComment(source_, pos_ + 1, depth)

\* blanks, tabs, carriage returns and line continuations (... up to and
\* including the newline)
RECURSIVE skipWhitespace(_, _)
skipWhitespace(source_, pos_) ==
    IF LexAtEnd(source_, pos_) THEN pos_
    ELSE IF current(source_, pos_) \in {" ", "\t", "\r"}
    THEN skipWhitespace(source_, pos_ + 1)
    ELSE IF current(source_, pos_) = "." /\ peek(source_, pos_, 1) = "."
            /\ peek(source_, pos_, 2) = "."
    THEN With(skipLineComment(source_, pos_ + 3), LAMBDA eol :
             skipWhitespace(source_, IF LexAtEnd(source_, eol) THEN eol ELSE eol + 1))
    ELSE pos_

\* the context without the keywords end, true and false
isTransposeContextNoKeyword(lastToken_) ==
    lastToken_.type \in {"IDENTIFIER", "NUMBER", "RPAREN", "RBRACKET", "RBRACE",
                         "TRANSPOSE", "DOT_TRANSPOSE"}

\* could the previous token be the end of an expression?
isTransposeContext(lastToken_) ==
    lastToken_.type \in {"IDENTIFIER", "NUMBER", "RPAREN", "RBRACKET", "RBRACE",
                         "TRANSPOSE", "DOT_TRANSPOSE", "END", "TRUE_KW", "FALSE_KW"}

\* the characters source_[from .. to] as one string
RECURSIVE Lexeme(_, _, _)
Lexeme(source_, from, to) ==
    IF from > to THEN "" ELSE Lexeme(source_, from, to - 1) \o source_[to]

\* the position behind the digits that start at pos_
RECURSIVE skipDigits(_, _)
skipDigits(source_, pos_) ==
    IF ~LexAtEnd(source_, pos_) /\ isdigit(current(source_, pos_))
    THEN skipDigits(source_, pos_ + 1)
    ELSE pos_

DigitValue(c) ==
    CASE c = "0" -> 0 [] c = "1" -> 1 [] c = "2" -> 2 [] c = "3" -> 3 [] c = "4" -> 4
      [] c = "5" -> 5 [] c = "6" -> 6 [] c = "7" -> 7 [] c = "8" -> 8 [] c = "9" -> 9

\* the number the digits source_[from .. to] spell
RECURSIVE DigitsValue(_, _, _)
DigitsValue(source_, from, to) ==
    IF from > to THEN 0
    ELSE 10 * DigitsValue(source_, from, to - 1) + DigitValue(source_[to])

\* a numeric value that is not one of the model's integers
NotInteger == -1

\* std::stod(num) for the literal source_[from .. to] whose integer part ends
\* before intEnd: stod reads the longest prefix that spells a number, and the
\* model has the integers only
stod(source_, from, intEnd, to) ==
    IF \E p \in intEnd .. to : isdigit(source_[p]) THEN NotInteger
    ELSE DigitsValue(source_, from, intEnd - 1)

\* the position behind the fraction, if one starts at pos_
skipFraction(source_, pos_) ==
    IF ~LexAtEnd(source_, pos_) /\ current(source_, pos_) = "."
       /\ peek(source_, pos_, 1) \notin {".", "*", "/", "\\", "^", "'"}
    THEN skipDigits(source_, pos_ + 1)
    ELSE pos_

\* the position behind the exponent, if one starts at pos_
skipExponent(source_, pos_) ==
    IF ~LexAtEnd(source_, pos_) /\ current(source_, pos_) \in {"e", "E"}
    THEN skipDigits(source_, IF ~LexAtEnd(source_, pos_ + 1)
                                /\ current(source_, pos_ + 1) \in {"+", "-"}
                             THEN pos_ + 2 ELSE pos_ + 1)
    ELSE pos_

\* is there a complex suffix (i or j) at pos_?
ComplexSuffix(source_, pos_) ==
    /\ ~LexAtEnd(source_, pos_)
    /\ current(source_, pos_) \in {"i", "j"}
    /\ ~isalnum(peek(source_, pos_, 1))
    /\ peek(source_, pos_, 1) # "_"

NumberToken(source_, pos_, intEnd, numEnd, cplx) ==
    Scanned([type |-> "NUMBER",
             lexeme |-> Lexeme(source_, pos_, IF cplx THEN numEnd ELSE numEnd - 1),
             numValue |-> IF cplx THEN 0 ELSE stod(source_, pos_, intEnd, numEnd - 1),
             isComplex |-> cplx,
             at |-> pos_],
            IF cplx THEN numEnd + 1 ELSE numEnd)

scanNumber(source_, pos_) ==
    With(skipDigits(source_, pos_), LAMBDA intEnd :
        With(skipExponent(source_, skipFraction(source_, intEnd)), LAMBDA numEnd :
            NumberToken(source_, pos_, intEnd, numEnd, ComplexSuffix(source_, numEnd))))

\* the loop of scanString: str is the text gathered so far
RECURSIVE ScanStringFrom(_, _, _, _, _)
ScanStringFrom(source_, pos_, delimiter, str, at) ==
    IF LexAtEnd(source_, pos_) THEN Scanned(Token("STRING", str, at), pos_)
    ELSE IF current(source_, pos_) = delimiter
    THEN IF peek(source_, pos_, 1) = delimiter
         THEN ScanStringFrom(source_, pos_ + 2, delimiter, str \o delimiter, at)
         ELSE Scanned(Token("STRING", str, at), pos_ + 1)
    ELSE IF current(source_, pos_) = "\n"
    THEN LexerError(<<"Unterminated string literal">>, pos_)
    ELSE ScanStringFrom(source_, pos_ + 1, delimiter, str \o current(source_, pos_), at)

scanString(source_, pos_, delimiter) ==
    ScanStringFrom(source_, pos_ + 1, delimiter, "", pos_)

\* the position behind the letters, digits and underscores that start at pos_
RECURSIVE skipIdentifier(_, _)
skipIdentifier(source_, pos_) ==
    IF ~LexAtEnd(source_, pos_)
       /\ (isalnum(current(source_, pos_)) \/ current(source_, pos_) = "_")
    THEN skipIdentifier(source_, pos_ + 1)
    ELSE pos_

IdentifierOrKeyword(ident, at) ==
    Token(IF ident \in DOMAIN keywords_ THEN keywords_[ident] ELSE "IDENTIFIER", ident, at)

scanIdentifierOrKeyword(source_, pos_) ==
    With(skipIdentifier(source_, pos_), LAMBDA identEnd :
        Scanned(IdentifierOrKeyword(Lexeme(source_, pos_, identEnd - 1), pos_), identEnd))

\* operators and punctuation of one character
SingleCharTokens ==
    [c \in {"+", "-", "*", "/", "\\", "^", "(", ")", "[", "]", "{", "}",
            ",", ";", ":", "@"} |->
        CASE c = "+" -> "PLUS"
          [] c = "-" -> "MINUS"
          [] c = "*" -> "STAR"
          [] c = "/" -> "SLASH"
          [] c = "\\" -> "BACKSLASH"
          [] c = "^" -> "CARET"
          [] c = "(" -> "LPAREN"
          [] c = ")" -> "RPAREN"
          [] c = "[" -> "LBRACKET"
          [] c = "]" -> "RBRACKET"
          [] c = "{" -> "LBRACE"
          [] c = "}" -> "RBRACE"
          [] c = "," -> "COMMA"
          [] c = ";" -> "SEMICOLON"
          [] c = ":" -> "COLON"
          [] c = "@" -> "AT"]

\* a token of two characters when second follows, else of one
OneOrTwo(source_, pos_, c, second, two, one) ==
    IF current(source_, pos_ + 1) = second
    THEN Scanned(Token(two, c \o second, pos_), pos_ + 2)
    ELSE Scanned(Token(one, c, pos_), pos_ + 1)

\* the switch of nextToken over the character c at pos_
scanOperator(source_, pos_, c) ==
    CASE c \in DOMAIN SingleCharTokens ->
            Scanned(Token(SingleCharTokens[c], c, pos_), pos_ + 1)
      [] c = "." ->
            CASE current(source_, pos_ + 1) = "*" ->
                    Scanned(Token("DOT_STAR", ".*", pos_), pos_ + 2)
              [] current(source_, pos_ + 1) = "/" ->
                    Scanned(Token("DOT_SLASH", "./", pos_), pos_ + 2)
              [] current(source_, pos_ + 1) = "\\" ->
                    Scanned(Token("DOT_BACKSLASH", ".\\", pos_), pos_ + 2)
              [] current(source_, pos_ + 1) = "^" ->
                    Scanned(Token("DOT_CARET", ".^", pos_), pos_ + 2)
              [] current(source_, pos_ + 1) = "'" ->
                    Scanned(Token("DOT_TRANSPOSE", ".'", pos_), pos_ + 2)
              [] OTHER -> Scanned(Token("DOT", ".", pos_), pos_ + 1)
      [] c = "=" -> OneOrTwo(source_, pos_, c, "=", "EQ", "ASSIGN")
      [] c = "<" -> OneOrTwo(source_, pos_, c, "=", "LE", "LT")
      [] c = ">" -> OneOrTwo(source_, pos_, c, "=", "GE", "GT")
      [] c = "~" -> OneOrTwo(source_, pos_, c, "=", "NE", "NOT")
      [] c = "&" -> OneOrTwo(source_, pos_, c, "&", "SHORT_AND", "AND")
      [] c = "|" -> OneOrTwo(source_, pos_, c, "|", "SHORT_OR", "OR")
      [] OTHER -> LexerError(<<"Unexpected character">>, pos_)

\* nextToken from the character c at pos_, the first behind the white space
RECURSIVE nextToken(_, _, _)
scanToken(source_, pos_, c, lastToken_) ==
    CASE c = "\n" ->
            IF lastToken_.type \notin {"NEWLINE", "SEMICOLON", "COMMA"}
            THEN Scanned(Token("NEWLINE", "\\n", pos_), pos_ + 1)
            ELSE nextToken(source_, pos_ + 1, lastToken_)
      [] c = "%" /\ peek(source_, pos_, 1) = "{" ->
            nextToken(source_, skipBlockComment(source_, pos_ + 2, 1), lastToken_)
      [] c = "%" /\ peek(source_, pos_, 1) # "{" ->
            IF lastToken_.type \notin {"NEWLINE", "SEMICOLON"}
            THEN Scanned(Token("NEWLINE", "\\n", pos_), skipLineComment(source_, pos_))
            ELSE nextToken(source_, skipLineComment(source_, pos_), lastToken_)
      [] isdigit(c) \/ (c = "." /\ isdigit(peek(source_, pos_, 1))) ->
            scanNumber(source_, pos_)
      [] c = "\"" -> scanString(source_, pos_, "\"")
      [] c = "'" ->
            IF isTransposeContext(lastToken_)
            THEN Scanned(Token("TRANSPOSE", "'", pos_), pos_ + 1)
            ELSE scanString(source_, pos_, "'")
      [] isalpha(c) \/ c = "_" -> scanIdentifierOrKeyword(source_, pos_)
      [] OTHER -> scanOperator(source_, pos_, c)

nextToken(source_, pos_, lastToken_) ==
    With(skipWhitespace(source_, pos_), LAMBDA start :
        IF LexAtEnd(source_, start) THEN Scanned(Token("EOF_TOKEN", "", start), start)
        ELSE scanToken(source_, start, current(source_, start), lastToken_))

\* what tokenize gives: the tokens, or the LexerError that escaped it with the
\* tokens it had gathered by then
Tokenized(exc, msg, tokens) == [exc |-> exc, msg |-> msg, tokens |-> tokens]

RECURSIVE TokenizeFrom(_, _, _, _)
TokenizeFrom(source_, pos_, lastToken_, tokens) ==
    With(nextToken(source_, pos_, lastToken_), LAMBDA r :
        IF r.exc # "none" THEN Tokenized(r.exc, r.msg, tokens)
        ELSE IF r.tok.type = "EOF_TOKEN" THEN Tokenized("none", <<>>, Append(tokens, r.tok))
        ELSE TokenizeFrom(source_, r.pos_, r.tok, Append(tokens, r.tok)))

tokenize(source_) == TokenizeFrom(source_, 1, FirstLastToken, <<>>)

----------------------------------------------------------------------------
(* The parser (parser.cpp).  tokens_ is the token sequence the parser was  *)
(* built from, pos_ the position in it (the first token is at 1).  A       *)
(* parsing function gives the node it built and the position behind it, or *)
(* the ParseError it threw.                                                *)

Parsed(node, pos_) == [exc |-> "none", msg |-> <<>>, node |-> node, pos_ |-> pos_]
ParseError(msg, pos_) == [exc |-> "ParseError", msg |-> msg, node |-> Nil, pos_ |-> pos_]

currentToken(tokens_, pos_) ==
    IF pos_ > Len(tokens_) THEN tokens_[Len(tokens_)] ELSE tokens_[pos_]
peekToken(tokens_, pos_, offset) == currentToken(tokens_, pos_ + offset)
advance(tokens_, pos_) == IF pos_ <= Len(tokens_) THEN pos_ + 1 ELSE pos_
check(tokens_, pos_, type) == currentToken(tokens_, pos_).type = type
isAtEnd(tokens_, pos_) == check(tokens_, pos_, "EOF_TOKEN")

\* expect: the token of the given type (as the node) or a ParseError
expect(tokens_, pos_, type, message) ==
    IF check(tokens_, pos_, type)
    THEN Parsed(currentToken(tokens_, pos_), advance(tokens_, pos_))
    ELSE ParseError(<<message, "got", currentToken(tokens_, pos_).type>>, pos_)

\* the position behind the NEWLINE tokens at pos_
RECURSIVE skipNewlines(_, _)
skipNewlines(tokens_, pos_) ==
    IF check(tokens_, pos_, "NEWLINE") THEN skipNewlines(tokens_, advance(tokens_, pos_))
    ELSE pos_

\* the position behind the end of a statement: a ; , newline is consumed,
\* the end of the input and a block-ending keyword are left, and so is any
\* other token
expectStatementEnd(tokens_, pos_) ==
    IF currentToken(tokens_, pos_).type \in {"SEMICOLON", "NEWLINE", "COMMA", "EOF_TOKEN"}
    THEN IF ~check(tokens_, pos_, "EOF_TOKEN") THEN advance(tokens_, pos_) ELSE pos_
    ELSE IF currentToken(tokens_, pos_).type \in
                {"END", "ELSE", "ELSEIF", "CASE", "OTHERWISE", "CATCH"}
    THEN pos_
    ELSE pos_

EndExpr == [k |-> "EndExpr"]
CellIndex(obj, indices) == [k |-> "CellIndexExpr", object |-> obj, indices |-> indices]
\* a literal whose value the model's integers do not hold
Inexact(tok) == [k |-> "NumberLiteral (not an integer)", lexeme |-> tok.lexeme]

\* the binary levels of the precedence climbing, loosest first, each with
\* its operators and the function that parses its operands
LevelOps(level) ==
    CASE level = "parseOr" -> {"SHORT_OR"}
      [] level = "parseAnd" -> {"SHORT_AND"}
      [] level = "parseBitwiseOr" -> {"OR"}
      [] level = "parseBitwiseAnd" -> {"AND"}
      [] level = "parseComparison" -> {"EQ", "NE", "LT", "GT", "LE", "GE"}
      [] level = "parseAddSub" -> {"PLUS", "MINUS"}
      [] level = "parseMulDiv" ->
            {"STAR", "SLASH", "BACKSLASH", "DOT_STAR", "DOT_SLASH", "DOT_BACKSLASH"}

RECURSIVE parseBinary(_, _, _), BinaryLoop(_, _, _), parseColon(_, _), parseUnary(_, _)
RECURSIVE parsePower(_, _), parsePostfix(_, _), PostfixLoop(_, _), parsePrimary(_, _)
RECURSIVE ParseArguments(_, _, _, _), ParseRows(_, _, _, _, _), ParseNames(_, _, _, _, _)

parseOr(tokens_, pos_) == parseBinary("parseOr", tokens_, pos_)
parseAddSub(tokens_, pos_) == parseBinary("parseAddSub", tokens_, pos_)
parseMulDiv(tokens_, pos_) == parseBinary("parseMulDiv", tokens_, pos_)
parseExpression(tokens_, pos_) == parseOr(tokens_, pos_)

ParseOperand(level, tokens_, pos_) ==
    CASE level = "parseOr" -> parseBinary("parseAnd", tokens_, pos_)
      [] level = "parseAnd" -> parseBinary("parseBitwiseOr", tokens_, pos_)
      [] level = "parseBitwiseOr" -> parseBinary("parseBitwiseAnd", tokens_, pos_)
      [] level = "parseBitwiseAnd" -> parseBinary("parseComparison", tokens_, pos_)
      [] level = "parseComparison" -> parseColon(tokens_, pos_)
      [] level = "parseAddSub" -> parseBinary("parseMulDiv", tokens_, pos_)
      [] level = "parseMulDiv" -> parseUnary(tokens_, pos_)

\* while the current token is an operator of the level: left = left op right
BinaryLoop(level, tokens_, left) ==
    IF currentToken(tokens_, left.pos_).type \in LevelOps(level)
    THEN Then(ParseOperand(level, tokens_, advance(tokens_, left.pos_)), LAMBDA right :
             BinaryLoop(level, tokens_,
                        Parsed(Bin(currentToken(tokens_, left.pos_).type, left.node, right.node),
                               right.pos_)))
    ELSE left

parseBinary(level, tokens_, pos_) ==
    Then(ParseOperand(level, tokens_, pos_), LAMBDA left : BinaryLoop(level, tokens_, left))

parseColon(tokens_, pos_) ==
    Then(parseAddSub(tokens_, pos_), LAMBDA start :
        IF ~check(tokens_, start.pos_, "COLON") THEN start
        ELSE Then(parseAddSub(tokens_, advance(tokens_, start.pos_)), LAMBDA second :
            IF ~check(tokens_, second.pos_, "COLON")
            THEN Parsed([k |-> "ColonExpr", start |-> start.node, step |-> Nil,
                         stop |-> second.node], second.pos_)
            ELSE Then(parseAddSub(tokens_, advance(tokens_, second.pos_)), LAMBDA third :
                Parsed([k |-> "ColonExpr", start |-> start.node, step |-> second.node,
                        stop |-> third.node], third.pos_))))

\* an exponent that is an operand without a prefix operator or a power
PowerExponentPostfix(tokens_, pos_) == parsePostfix(tokens_, pos_)

\* what follows the ^ of a power: a unary expression, so that the power
\* associates to the right
PowerExponent(tokens_, pos_) == parseUnary(tokens_, pos_)

\* the operand of a prefix operator
UnaryOperand(tokens_, pos_) == parseUnary(tokens_, pos_)

parseUnary(tokens_, pos_) ==
    IF currentToken(tokens_, pos_).type \in {"MINUS", "PLUS", "NOT"}
    THEN Then(UnaryOperand(tokens_, advance(tokens_, pos_)), LAMBDA operand :
             Parsed(Unary(currentToken(tokens_, pos_).type, operand.node), operand.pos_))
    ELSE parsePower(tokens_, pos_)

parsePower(tokens_, pos_) ==
    Then(parsePostfix(tokens_, pos_), LAMBDA base :
        IF currentToken(tokens_, base.pos_).type \in {"CARET", "DOT_CARET"}
        THEN Then(PowerExponent(tokens_, advance(tokens_, base.pos_)), LAMBDA exp :
                 Parsed(Bin(currentToken(tokens_, base.pos_).type, base.node, exp.node),
                        exp.pos_))
        ELSE base)

\* the arguments of a call or the indices of a cell index up to the closing
\* token; a : stands for itself between parentheses
ParseArguments(tokens_, pos_, closer, args) ==
    IF check(tokens_, pos_, closer) \/ isAtEnd(tokens_, pos_) THEN Parsed(args, pos_)
    ELSE Then(IF closer = "RPAREN" /\ check(tokens_, pos_, "COLON")
              THEN Parsed(BareColon, advance(tokens_, pos_))
              ELSE parseExpression(tokens_, pos_), LAMBDA arg :
        IF check(tokens_, arg.pos_, closer)
        THEN ParseArguments(tokens_, arg.pos_, closer, Append(args, arg.node))
        ELSE Then(expect(tokens_, arg.pos_, "COMMA",
                         IF closer = "RPAREN" THEN "Expected ',' between arguments"
                         ELSE "Expected ',' between indices"),
                  LAMBDA comma :
                      ParseArguments(tokens_, comma.pos_, closer, Append(args, arg.node))))

PostfixLoop(tokens_, expr) ==
    CASE check(tokens_, expr.pos_, "LPAREN") ->
            Then(ParseArguments(tokens_, advance(tokens_, expr.pos_), "RPAREN", <<>>),
                 LAMBDA args :
                Then(expect(tokens_, args.pos_, "RPAREN", "Expected ')'"), LAMBDA paren :
                    PostfixLoop(tokens_,
                                Parsed([k |-> "CallExpr", callee |-> expr.node,
                                        arguments |-> args.node], paren.pos_))))
      [] check(tokens_, expr.pos_, "LBRACE") ->
            Then(ParseArguments(tokens_, advance(tokens_, expr.pos_), "RBRACE", <<>>),
                 LAMBDA indices :
                Then(expect(tokens_, indices.pos_, "RBRACE", "Expected '}'"), LAMBDA brace :
                    PostfixLoop(tokens_,
                                Parsed(CellIndex(expr.node, indices.node), brace.pos_))))
      [] check(tokens_, expr.pos_, "DOT")
         /\ peekToken(tokens_, expr.pos_, 1).type = "IDENTIFIER" ->
            PostfixLoop(tokens_,
                        Parsed(Dot(expr.node, peekToken(tokens_, expr.pos_, 1).lexeme),
                               advance(tokens_, advance(tokens_, expr.pos_))))
      [] currentToken(tokens_, expr.pos_).type \in {"TRANSPOSE", "DOT_TRANSPOSE"} ->
            PostfixLoop(tokens_,
                        Parsed(Unary(currentToken(tokens_, expr.pos_).type, expr.node),
                               advance(tokens_, expr.pos_)))
      [] OTHER -> expr

parsePostfix(tokens_, pos_) ==
    Then(parsePrimary(tokens_, pos_), LAMBDA expr : PostfixLoop(tokens_, expr))

\* the rows of a matrix or cell array literal up to the closing token
ParseRows(tokens_, pos_, closer, rows, currentRow) ==
    IF check(tokens_, pos_, closer) \/ isAtEnd(tokens_, pos_)
    THEN Parsed(IF currentRow # <<>> THEN Append(rows, currentRow) ELSE rows, pos_)
    ELSE IF currentToken(tokens_, pos_).type \in {"SEMICOLON", "NEWLINE"}
    THEN ParseRows(tokens_, skipNewlines(tokens_, advance(tokens_, pos_)), closer,
                   IF currentRow # <<>> THEN Append(rows, currentRow) ELSE rows, <<>>)
    ELSE Then(parseExpression(tokens_, pos_), LAMBDA e :
             ParseRows(tokens_,
                       IF check(tokens_, e.pos_, "COMMA") THEN advance(tokens_, e.pos_)
                       ELSE e.pos_,
                       closer, rows, Append(currentRow, e.node)))

parseMatrixLiteral(tokens_, pos_) ==
    Then(expect(tokens_, pos_, "LBRACKET", "Expected '['"), LAMBDA open :
        Then(ParseRows(tokens_, open.pos_, "RBRACKET", <<>>, <<>>), LAMBDA rows :
            Then(expect(tokens_, rows.pos_, "RBRACKET", "Expected ']'"), LAMBDA close :
                Parsed(Mat(rows.node), close.pos_))))

parseCellArrayLiteral(tokens_, pos_) ==
    Then(expect(tokens_, pos_, "LBRACE", "Expected '{'"), LAMBDA open :
        Then(ParseRows(tokens_, open.pos_, "RBRACE", <<>>, <<>>), LAMBDA rows :
            Then(expect(tokens_, rows.pos_, "RBRACE", "Expected '}'"), LAMBDA close :
                Parsed(CellLit(rows.node), close.pos_))))

\* the names (parameters, return variables) up to the closing token; what
\* is the message when neither a comma nor the closing token follows a name
ParseNames(tokens_, pos_, closer, what, names) ==
    IF check(tokens_, pos_, closer) \/ isAtEnd(tokens_, pos_) THEN Parsed(names, pos_)
    ELSE Then(expect(tokens_, pos_, "IDENTIFIER", "Expected name"), LAMBDA name :
        IF check(tokens_, name.pos_, closer)
        THEN ParseNames(tokens_, name.pos_, closer, what, Append(names, name.node.lexeme))
        ELSE Then(expect(tokens_, name.pos_, "COMMA", what), LAMBDA comma :
                 ParseNames(tokens_, comma.pos_, closer, what,
                            Append(names, name.node.lexeme))))

\* the @ is consumed already
parseAnonFunc(tokens_, pos_) ==
    Then(expect(tokens_, pos_, "LPAREN", "Expected '(' for anonymous function parameters"),
         LAMBDA open :
        Then(ParseNames(tokens_, open.pos_, "RPAREN", "Expected ','", <<>>), LAMBDA params :
            Then(expect(tokens_, params.pos_, "RPAREN", "Expected ')'"), LAMBDA close :
                Then(parseExpression(tokens_, close.pos_), LAMBDA body :
                    Parsed(AnonFunc(params.node, body.node), body.pos_)))))

parsePrimary(tokens_, pos_) ==
    CASE check(tokens_, pos_, "NUMBER") ->
            Parsed(IF currentToken(tokens_, pos_).isComplex
                      \/ currentToken(tokens_, pos_).numValue = NotInteger
                   THEN Inexact(currentToken(tokens_, pos_))
                   ELSE Num(currentToken(tokens_, pos_).numValue),
                   advance(tokens_, pos_))
      [] check(tokens_, pos_, "STRING") ->
            Parsed(Str(currentToken(tokens_, pos_).lexeme), advance(tokens_, pos_))
      [] check(tokens_, pos_, "TRUE_KW") -> Parsed(Bool(TRUE), advance(tokens_, pos_))
      [] check(tokens_, pos_, "FALSE_KW") -> Parsed(Bool(FALSE), advance(tokens_, pos_))
      [] check(tokens_, pos_, "END") -> Parsed(EndExpr, advance(tokens_, pos_))
      [] check(tokens_, pos_, "IDENTIFIER") ->
            Parsed(Id(currentToken(tokens_, pos_).lexeme), advance(tokens_, pos_))
      [] check(tokens_, pos_, "LPAREN") ->
            Then(parseExpression(tokens_, advance(tokens_, pos_)), LAMBDA expr :
                Then(expect(tokens_, expr.pos_, "RPAREN", "Expected ')'"), LAMBDA close :
                    Parsed(expr.node, close.pos_)))
      [] check(tokens_, pos_, "LBRACKET") -> parseMatrixLiteral(tokens_, pos_)
      [] check(tokens_, pos_, "LBRACE") -> parseCellArrayLiteral(tokens_, pos_)
      [] check(tokens_, pos_, "AT") ->
            IF check(tokens_, advance(tokens_, pos_), "LPAREN")
            THEN parseAnonFunc(tokens_, advance(tokens_, pos_))
            ELSE IF check(tokens_, advance(tokens_, pos_), "IDENTIFIER")
            THEN Parsed(FuncHandle(currentToken(tokens_, advance(tokens_, pos_)).lexeme),
                        advance(tokens_, advance(tokens_, pos_)))
            ELSE ParseError(<<"Expected function name or parameter list after '@'">>,
                            advance(tokens_, pos_))
      [] OTHER -> ParseError(<<"Unexpected token", currentToken(tokens_, pos_).type>>, pos_)

(* Statements *)

Switch(expression, cases) == [k |-> "SwitchStmt", expression |-> expression, cases |-> cases]
Persistent(names) == [k |-> "PersistentStmt", variables |-> names]
MultiAssign(targets, value, print) ==
    [k |-> "MultiAssignStmt", targets |-> targets, value |-> value, printResult |-> print]
\* the statement that holds a function definition
FunctionDefStmt(def) == [k |-> "FunctionDef", def |-> def]

RECURSIVE parseStatement(_, _), ParseBlockFrom(_, _, _, _), ParseElseIfs(_, _, _)
RECURSIVE ParseCases(_, _, _), ScanTargets(_, _, _)

\* the statements up to one of the terminators or the end of the input
ParseBlockFrom(tokens_, pos_, terminators, stmts) ==
    IF isAtEnd(tokens_, pos_) \/ currentToken(tokens_, pos_).type \in terminators
    THEN Parsed(stmts, pos_)
    ELSE Then(parseStatement(tokens_, pos_), LAMBDA stmt :
             ParseBlockFrom(tokens_, skipNewlines(tokens_, stmt.pos_), terminators,
                            Append(stmts, stmt.node)))

parseBlock(tokens_, pos_, terminators) ==
    ParseBlockFrom(tokens_, skipNewlines(tokens_, pos_), terminators, <<>>)

\* a condition or header expression, the end of the header and the block
\* that follows, as the Branch of the two
ParseBranch(tokens_, pos_, terminators) ==
    Then(parseExpression(tokens_, pos_), LAMBDA cond :
        Then(parseBlock(tokens_, expectStatementEnd(tokens_, cond.pos_), terminators),
             LAMBDA body : Parsed(Branch(cond.node, body.node), body.pos_)))

\* the elseif branches and the else branch
ParseElseIfs(tokens_, pos_, branches) ==
    IF check(tokens_, pos_, "ELSEIF")
    THEN Then(ParseBranch(tokens_, advance(tokens_, pos_), {"ELSEIF", "ELSE", "END"}),
              LAMBDA branch :
                  ParseElseIfs(tokens_, branch.pos_, Append(branches, branch.node)))
    ELSE IF check(tokens_, pos_, "ELSE")
    THEN Then(parseBlock(tokens_, expectStatementEnd(tokens_, advance(tokens_, pos_)),
                         {"END"}),
              LAMBDA body : Parsed(Append(branches, Branch(Nil, body.node)), body.pos_))
    ELSE Parsed(branches, pos_)

\* the end that closes a construct and the end of the statement
ExpectEnd(tokens_, pos_, node, message) ==
    Then(expect(tokens_, pos_, "END", message), LAMBDA end :
        Parsed(node, expectStatementEnd(tokens_, end.pos_)))

parseIfStmt(tokens_, pos_) ==
    Then(expect(tokens_, pos_, "IF", "Expected 'if'"), LAMBDA if :
        Then(ParseBranch(tokens_, if.pos_, {"ELSEIF", "ELSE", "END"}), LAMBDA first :
            Then(ParseElseIfs(tokens_, first.pos_, <<first.node>>), LAMBDA branches :
                ExpectEnd(tokens_, branches.pos_, If(branches.node),
                          "Expected 'end' to close 'if'"))))

parseForStmt(tokens_, pos_) ==
    Then(expect(tokens_, pos_, "FOR", "Expected 'for'"), LAMBDA for :
        Then(expect(tokens_, for.pos_, "IDENTIFIER", "Expected loop variable"), LAMBDA var :
            Then(expect(tokens_, var.pos_, "ASSIGN", "Expected '='"), LAMBDA assign :
                Then(ParseBranch(tokens_, assign.pos_, {"END"}), LAMBDA loop :
                    ExpectEnd(tokens_, loop.pos_,
                              For(var.node.lexeme, loop.node.condition, loop.node.body),
                              "Expected 'end' to close 'for'")))))

parseWhileStmt(tokens_, pos_) ==
    Then(expect(tokens_, pos_, "WHILE", "Expected 'while'"), LAMBDA while :
        Then(ParseBranch(tokens_, while.pos_, {"END"}), LAMBDA loop :
            ExpectEnd(tokens_, loop.pos_, While(loop.node.condition, loop.node.body),
                      "Expected 'end' to close 'while'")))

\* the cases and the otherwise of a switch
ParseCases(tokens_, pos_, cases) ==
    IF check(tokens_, pos_, "CASE")
    THEN Then(ParseBranch(tokens_, advance(tokens_, pos_), {"CASE", "OTHERWISE", "END"}),
              LAMBDA case :
                  ParseCases(tokens_, skipNewlines(tokens_, case.pos_),
                             Append(cases, [value |-> case.node.condition,
                                            body |-> case.node.body])))
    ELSE IF check(tokens_, pos_, "OTHERWISE")
    THEN Then(parseBlock(tokens_, expectStatementEnd(tokens_, advance(tokens_, pos_)),
                         {"END"}),
              LAMBDA body :
                  Parsed(Append(cases, [value |-> Nil, body |-> body.node]), body.pos_))
    ELSE Parsed(cases, pos_)

parseSwitchStmt(tokens_, pos_) ==
    Then(expect(tokens_, pos_, "SWITCH", "Expected 'switch'"), LAMBDA switch :
        Then(parseExpression(tokens_, switch.pos_), LAMBDA expr :
            Then(ParseCases(tokens_,
                            skipNewlines(tokens_, expectStatementEnd(tokens_, expr.pos_)),
                            <<>>),
                 LAMBDA cases :
                     ExpectEnd(tokens_, cases.pos_, Switch(expr.node, cases.node),
                               "Expected 'end' to close 'switch'"))))

\* the catch part of a try: the variable, if any, and the block
ParseCatch(tokens_, pos_) ==
    IF ~check(tokens_, pos_, "CATCH") THEN Parsed([catchVar |-> "", catchBody |-> <<>>], pos_)
    ELSE IF check(tokens_, advance(tokens_, pos_), "IDENTIFIER")
    THEN Then(parseBlock(tokens_,
                         expectStatementEnd(tokens_, advance(tokens_, advance(tokens_, pos_))),
                         {"END"}),
              LAMBDA body :
                  Parsed([catchVar |-> currentToken(tokens_, advance(tokens_, pos_)).lexeme,
                          catchBody |-> body.node], body.pos_))
    ELSE Then(parseBlock(tokens_, expectStatementEnd(tokens_, advance(tokens_, pos_)),
                         {"END"}),
              LAMBDA body : Parsed([catchVar |-> "", catchBody |-> body.node], body.pos_))

parseTryCatchStmt(tokens_, pos_) ==
    Then(expect(tokens_, pos_, "TRY", "Expected 'try'"), LAMBDA try :
        Then(parseBlock(tokens_, expectStatementEnd(tokens_, try.pos_), {"CATCH", "END"}),
             LAMBDA tryBody :
            Then(ParseCatch(tokens_, tryBody.pos_), LAMBDA catch :
                ExpectEnd(tokens_, catch.pos_,
                          TryCatch(tryBody.node, catch.node.catchVar, catch.node.catchBody),
                          "Expected 'end' to close 'try'"))))

\* the identifiers at pos_, one after the other
RECURSIVE ParseVariables(_, _, _)
ParseVariables(tokens_, pos_, names) ==
    IF check(tokens_, pos_, "IDENTIFIER")
    THEN ParseVariables(tokens_, advance(tokens_, pos_),
                        Append(names, currentToken(tokens_, pos_).lexeme))
    ELSE Parsed(names, pos_)

parseGlobalStmt(tokens_, pos_) ==
    With(ParseVariables(tokens_, advance(tokens_, pos_), <<>>), LAMBDA names :
        Parsed(Global(names.node), expectStatementEnd(tokens_, names.pos_)))

parsePersistentStmt(tokens_, pos_) ==
    With(ParseVariables(tokens_, advance(tokens_, pos_), <<>>), LAMBDA names :
        Parsed(Persistent(names.node), expectStatementEnd(tokens_, names.pos_)))

\* the return variables and the name of a function: [r1, r2] = name,
\* r = name, or name
ParseSignature(tokens_, pos_) ==
    IF check(tokens_, pos_, "LBRACKET")
    THEN Then(ParseNames(tokens_, advance(tokens_, pos_), "RBRACKET",
                         "Expected ',' between return variables", <<>>), LAMBDA returns :
         Then(expect(tokens_, returns.pos_, "RBRACKET", "Expected ']'"), LAMBDA close :
          Then(expect(tokens_, close.pos_, "ASSIGN", "Expected '='"), LAMBDA assign :
           Then(expect(tokens_, assign.pos_, "IDENTIFIER", "Expected function name"),
                LAMBDA name :
                    Parsed([returns |-> returns.node, name |-> name.node.lexeme],
                           name.pos_)))))
    ELSE Then(expect(tokens_, pos_, "IDENTIFIER", "Expected function name or return var"),
              LAMBDA first :
         IF check(tokens_, first.pos_, "ASSIGN")
         THEN Then(expect(tokens_, advance(tokens_, first.pos_), "IDENTIFIER",
                          "Expected function name"), LAMBDA name :
                  Parsed([returns |-> <<first.node.lexeme>>, name |-> name.node.lexeme],
                         name.pos_))
         ELSE Parsed([returns |-> <<>>, name |-> first.node.lexeme], first.pos_))

\* the parameter list of a function definition, if there is one
ParseParameters(tokens_, pos_) ==
    IF ~check(tokens_, pos_, "LPAREN") THEN Parsed(<<>>, pos_)
    ELSE Then(ParseNames(tokens_, advance(tokens_, pos_), "RPAREN", "Expected ')'", <<>>),
              LAMBDA params :
         Then(expect(tokens_, params.pos_, "RPAREN", "Expected ')'"), LAMBDA close :
             Parsed(params.node, close.pos_)))

\* the position behind the end of a function body: the end and one newline
\* or semicolon after it are consumed; the body may also run to the end of
\* the input
FunctionEnd(tokens_, pos_) ==
    IF ~check(tokens_, pos_, "END") THEN pos_
    ELSE IF currentToken(tokens_, advance(tokens_, pos_)).type \in {"NEWLINE", "SEMICOLON"}
    THEN advance(tokens_, advance(tokens_, pos_))
    ELSE advance(tokens_, pos_)

parseFunctionDef(tokens_, pos_) ==
    Then(expect(tokens_, pos_, "FUNCTION", "Expected 'function'"), LAMBDA function :
        Then(ParseSignature(tokens_, function.pos_), LAMBDA sig :
            Then(ParseParameters(tokens_, sig.pos_), LAMBDA params :
                Then(parseBlock(tokens_, expectStatementEnd(tokens_, params.pos_), {"END"}),
                     LAMBDA body :
                         Parsed(FunctionDefStmt(FunctionDef(sig.node.name, params.node,
                                                            sig.node.returns, body.node)),
                                FunctionEnd(tokens_, body.pos_))))))

\* the look-ahead of parseExpressionStmt over [names]: the names and the
\* position of the ] when the bracket holds names (and ~) only, else the
\* ParseError that stands for "not a multi-assignment"
ScanTargets(tokens_, pos_, names) ==
    IF check(tokens_, pos_, "RBRACKET") THEN Parsed(names, pos_)
    ELSE IF isAtEnd(tokens_, pos_) THEN ParseError(<<>>, pos_)
    ELSE IF check(tokens_, pos_, "IDENTIFIER")
    THEN IF check(tokens_, advance(tokens_, pos_), "RBRACKET")
         THEN Parsed(Append(names, currentToken(tokens_, pos_).lexeme), advance(tokens_, pos_))
         ELSE IF check(tokens_, advance(tokens_, pos_), "COMMA")
         THEN ScanTargets(tokens_, advance(tokens_, advance(tokens_, pos_)),
                          Append(names, currentToken(tokens_, pos_).lexeme))
         ELSE IF currentToken(tokens_, advance(tokens_, pos_)).type \in {"IDENTIFIER", "NOT"}
         THEN ScanTargets(tokens_, advance(tokens_, pos_),
                          Append(names, currentToken(tokens_, pos_).lexeme))
         ELSE ParseError(<<>>, pos_)
    ELSE IF check(tokens_, pos_, "NOT")
    THEN IF check(tokens_, advance(tokens_, pos_), "COMMA")
         THEN ScanTargets(tokens_, advance(tokens_, advance(tokens_, pos_)),
                          Append(names, "~"))
         ELSE ScanTargets(tokens_, advance(tokens_, pos_), Append(names, "~"))
    ELSE ParseError(<<>>, pos_)

\* is there [names] = at pos_?
IsMultiAssign(tokens_, pos_) ==
    /\ check(tokens_, pos_, "LBRACKET")
    /\ ScanTargets(tokens_, advance(tokens_, pos_), <<>>).exc = "none"
    /\ check(tokens_, advance(tokens_, ScanTargets(tokens_, advance(tokens_, pos_), <<>>).pos_),
             "ASSIGN")

\* the end of an expression statement or assignment: a ; suppresses the
\* output, and a newline is consumed
PrintResult(tokens_, pos_) == ~check(tokens_, pos_, "SEMICOLON")
skipOne(tokens_, pos_) == IF check(tokens_, pos_, "NEWLINE") THEN advance(tokens_, pos_) ELSE pos_
AfterStatement(tokens_, pos_) ==
    skipOne(tokens_, IF check(tokens_, pos_, "SEMICOLON") THEN advance(tokens_, pos_) ELSE pos_)

parseMultiAssign(tokens_, pos_) ==
    With(ScanTargets(tokens_, advance(tokens_, pos_), <<>>), LAMBDA targets :
        Then(parseExpression(tokens_, advance(tokens_, advance(tokens_, targets.pos_))),
             LAMBDA value :
                 Parsed(MultiAssign(targets.node, value.node,
                                    PrintResult(tokens_, value.pos_)),
                        AfterStatement(tokens_, value.pos_))))

parseExpressionStmt(tokens_, pos_) ==
    IF IsMultiAssign(tokens_, pos_) THEN parseMultiAssign(tokens_, pos_)
    ELSE Then(parseExpression(tokens_, pos_), LAMBDA expr :
        IF check(tokens_, expr.pos_, "ASSIGN")
        THEN Then(parseExpression(tokens_, advance(tokens_, expr.pos_)), LAMBDA value :
                 Parsed(Assign(expr.node, value.node, PrintResult(tokens_, value.pos_)),
                        AfterStatement(tokens_, value.pos_)))
        ELSE Parsed(ExprStmt(expr.node, PrintResult(tokens_, expr.pos_)),
                    AfterStatement(tokens_, expr.pos_)))

\* return, break and continue: the keyword and the end of the statement
KeywordStmt(tokens_, pos_, stmt) ==
    Parsed(stmt, expectStatementEnd(tokens_, advance(tokens_, pos_)))

ParseStatementAt(tokens_, pos_) ==
    CASE check(tokens_, pos_, "IF") -> parseIfStmt(tokens_, pos_)
      [] check(tokens_, pos_, "FOR") -> parseForStmt(tokens_, pos_)
      [] check(tokens_, pos_, "WHILE") -> parseWhileStmt(tokens_, pos_)
      [] check(tokens_, pos_, "SWITCH") -> parseSwitchStmt(tokens_, pos_)
      [] check(tokens_, pos_, "TRY") -> parseTryCatchStmt(tokens_, pos_)
      [] check(tokens_, pos_, "FUNCTION") -> parseFunctionDef(tokens_, pos_)
      [] check(tokens_, pos_, "GLOBAL") -> parseGlobalStmt(tokens_, pos_)
      [] check(tokens_, pos_, "PERSISTENT") -> parsePersistentStmt(tokens_, pos_)
      [] check(tokens_, pos_, "RETURN") -> KeywordStmt(tokens_, pos_, Return)
      [] check(tokens_, pos_, "BREAK") -> KeywordStmt(tokens_, pos_, Break)
      [] check(tokens_, pos_, "CONTINUE") -> KeywordStmt(tokens_, pos_, Continue)
      [] OTHER -> parseExpressionStmt(tokens_, pos_)

parseStatement(tokens_, pos_) == ParseStatementAt(tokens_, skipNewlines(tokens_, pos_))

\* the loop of parse: a function definition at the top level goes to the
\* functions of the program as well as to its statements
RECURSIVE ParseProgram(_, _, _)
ParseProgram(tokens_, pos_, program) ==
    IF isAtEnd(tokens_, pos_) THEN Parsed(program, pos_)
    ELSE IF check(tokens_, pos_, "FUNCTION")
    THEN Then(parseFunctionDef(tokens_, pos_), LAMBDA funcStmt :
             ParseProgram(tokens_, skipNewlines(tokens_, funcStmt.pos_),
                          Program(Append(program.statements, funcStmt.node),
                                  Append(program.functions, funcStmt.node.def))))
    ELSE Then(parseStatement(tokens_, pos_), LAMBDA stmt :
             ParseProgram(tokens_, skipNewlines(tokens_, stmt.pos_),
                          Program(Append(program.statements, stmt.node), program.functions)))

parse(tokens_) == ParseProgram(tokens_, skipNewlines(tokens_, 1), Program(<<>>, <<>>))

----------------------------------------------------------------------------
(* Top-level execution *)

RECURSIVE RegisterFunctions(_, _, _)
RegisterFunctions(uf, functions, i) ==
    IF i > Len(functions) THEN uf
    ELSE RegisterFunctions((functions[i].name :> functions[i]) @@ uf, functions, i + 1)

RECURSIVE ExecTopLevel(_, _, _)
ExecTopLevel(stmts, i, st) ==
    IF i > Len(stmts) THEN Ok(st, Null)
    ELSE IF stmts[i].k = "FunctionDef" THEN ExecTopLevel(stmts, i + 1, st)
    ELSE Then(executeStmt(stmts[i], st), LAMBDA r : ExecTopLevel(stmts, i + 1, r.st))

\* an execute that registers no function
executeStatementsOnly(program, st) == ExecTopLevel(program.statements, 1, st)

\* execute(program): register the function definitions, then run the
\* statements
execute(program, st) ==
    ExecTopLevel(program.statements, 1,
                 [st EXCEPT !.userFunctions_ = RegisterFunctions(@, program.functions, 1)])

----------------------------------------------------------------------------
(* The session.  One Interpreter object lives through a sequence of       *)
(* executeString calls, as in the REPL loop; a program is handed over as   *)
(* the Program the parser builds from the source text.  last records what  *)
(* the latest call did: the program, the exception that escaped it (none   *)
(* when it returned), what() of that exception, the output it wrote, and   *)
(* the environments it started from.  front records the work of the Lexer  *)
(* and the Parser on the source text of the latest call that was given     *)
(* one: the text, the tokens, the program, and the exception thrown.       *)

\* Environment objects are reference counted: when a call is over only the
\* global environment and the current one are still referenced
Collect(st) ==
    IF st.currentEnv_ = globalEnv_
    THEN [st EXCEPT !.envs = (globalEnv_ :> st.envs[globalEnv_])]
    ELSE [st EXCEPT !.envs = (globalEnv_ :> st.envs[globalEnv_]) @@ (2 :> st.envs[st.currentEnv_]),
                    !.currentEnv_ = 2]

\* Interpreter::Interpreter(): the global environment with the constants
\* (pi, inf, nan and eps are left out: the model's numbers are integers)
InitialGlobals ==
    ("i" :> makeScalar(0)) @@ ("j" :> makeScalar(0)) @@
    ("true" :> makeBool(TRUE)) @@ ("false" :> makeBool(FALSE))

NoProgram == [fam |-> "", a |-> 0, b |-> 0, c |-> 0]
Prog(fam, a, b, c) == [fam |-> fam, a |-> a, b |-> b, c |-> c]

\* exceptions the REPL loop has no handler for end the process, and so does
\* a crash
Fatal(exc) == exc \in {"crash", "BreakSignal", "ContinueSignal", "ReturnSignal"}

Front(op, code, exc, msg, tokens, program) ==
    [op |-> op, code |-> code, exc |-> exc, msg |-> msg, tokens |-> tokens,
     program |-> program]
NoFront == Front("none", <<>>, "none", <<>>, <<>>, Program(<<>>, <<>>))

\* the interpreter after construction
Constructed ==
    /\ envs = (globalEnv_ :> [NewEnv(0) EXCEPT !.variables_ = InitialGlobals])
    /\ currentEnv_ = globalEnv_
    /\ userFunctions_ = EmptyFields
    /\ output_ = <<>>
    /\ last = [op |-> "Interpreter", prog |-> NoProgram, exc |-> "none", msg |-> <<>>,
               out |-> <<>>, envs |-> <<>>, currentEnv_ |-> globalEnv_]
    /\ nCalls = 0

Init == Constructed /\ front = NoFront

\* the interpreter state an entry point starts from
Self(ub) ==
    [envs |-> envs, currentEnv_ |-> currentEnv_, userFunctions_ |-> userFunctions_,
     output_ |-> output_, ub |-> ub]

\* the state an entry point leaves behind
Leave(op, id, r) ==
    LET st == Collect(r.st)
    IN /\ envs' = st.envs
       /\ currentEnv_' = st.currentEnv_
       /\ userFunctions_' = st.userFunctions_
       /\ output_' = st.output_
       /\ last' = [op |-> op, prog |-> id, exc |-> r.exc, msg |-> r.msg,
                   out |-> SubSeq(st.output_, Len(output_) + 1, Len(st.output_)),
                   envs |-> envs, currentEnv_ |-> currentEnv_]
       /\ nCalls' = nCalls + 1

\* void setOutput(std::ostream& os): a new, empty sink
SetOutput ==
    /\ ~Fatal(last.exc)
    /\ output_' = <<>>
    /\ UNCHANGED <<envs, currentEnv_, userFunctions_, last, nCalls, front>>

----------------------------------------------------------------------------
(* Programs.  A program is named by a family and up to three numbers; the  *)
(* comment of each family gives its source text.                           *)

Plus(l, r) == Bin("PLUS", l, r)
Times(l, r) == Bin("STAR", l, r)
Equals(l, r) == Bin("EQ", l, r)
Less(l, r) == Bin("LT", l, r)
\* name(args) as a statement terminated by a semicolon
CallStmt(name, args) == ExprStmt(Call(name, args), FALSE)
Fn(def) == [k |-> "FunctionDef", def |-> def]
\* the literal n; a negative number is the negation of a literal
Lit(n) == IF n < 0 THEN Unary("MINUS", Num(0 - n)) ELSE Num(n)

(* Nested loops with a break or continue in the inner one:                 *)
(*     for i = 1:n                     i = 0; while i < n, i = i + 1;      *)
(*       for j = 1:m                     j = 0; while j < m, j = j + 1;    *)
(*         if j == c, break; end           if j == c, continue; end        *)
(*         disp(10 * i + j);               disp(10 * i + j);               *)
(*       end                             end                               *)
(*       disp(i);                        disp(i);                          *)
(*     end                             end                                 *)
(*     disp(0);                        disp(0);                            *)
(* The family names the outer loop, the inner loop and the statement.      *)
NestFamilies ==
    {"ForForBreak", "ForForContinue", "ForWhileBreak", "ForWhileContinue",
     "WhileForBreak", "WhileForContinue", "WhileWhileBreak", "WhileWhileContinue"}
OuterIsFor(fam) == fam \in {"ForForBreak", "ForForContinue", "ForWhileBreak", "ForWhileContinue"}
InnerIsFor(fam) == fam \in {"ForForBreak", "ForForContinue", "WhileForBreak", "WhileForContinue"}
IsBreakFamily(fam) ==
    fam \in {"ForForBreak", "ForWhileBreak", "WhileForBreak", "WhileWhileBreak"}

\* a loop that counts var from 1 to n, as a for or as a while
CountingLoop(isFor, var, n, body) ==
    IF isFor THEN <<For(var, Colon(Num(1), Num(n)), body)>>
    ELSE <<Set(var, Num(0)),
           While(Less(Id(var), Num(n)), <<Set(var, Plus(Id(var), Num(1)))>> \o body)>>

NestProgram(id) ==
    LET signal == IF IsBreakFamily(id.fam) THEN Break ELSE Continue
        inner == CountingLoop(InnerIsFor(id.fam), "j", id.b,
                     <<IfThen(Equals(Id("j"), Num(id.c)), <<signal>>),
                       Disp(Plus(Times(Num(10), Id("i")), Id("j")))>>)
        outer == CountingLoop(OuterIsFor(id.fam), "i", id.a, inner \o <<Disp(Id("i"))>>)
    IN Program(outer \o <<Disp(Num(0))>>, <<>>)

NestPrograms ==
    {Prog(fam, 2, b, c) : fam \in NestFamilies, b \in 1..MaxN, c \in 1..(MaxN + 1)}

(* What a session starts with:                                             *)
(*   Empty      an empty input                                             *)
(*   Workspace  i = 5; j = 5; x = 7; s = 9;                                *)
(*   Leak       function fail()  error('fail');  end   fail();             *)
(*              the error escapes fail and executeString                   *)
(* Functions that return early; the call is  y = f(a);                     *)
(*   ReturnInIf       function r = f(n)                                    *)
(*                      r = 10; if n == c, r = 20; return; end             *)
(*                      r = 30; disp(99);                                  *)
(*   ReturnInFor      function r = f(n)                                    *)
(*                      r = 10;                                            *)
(*                      for k = 1:n, if k == c, r = 20 + k; return; end    *)
(*                        disp(k); end                                     *)
(*                      r = 30; disp(99);                                  *)
(*   ReturnInWhile    the same with  k = 0; while k < n, k = k + 1; ...    *)
(*   ReturnInTry      function r = f(n)                                    *)
(*                      r = 10;                                            *)
(*                      try, disp(1); if n == c, r = 20; return; end       *)
(*                        disp(2); catch, disp(98); end                    *)
(*                      r = 30; disp(99);                                  *)
(*   ReturnTwoVars    function [r, q] = f(n)                               *)
(*                      r = 10; q = 40; if n == c, r = 20; return; end     *)
(*                      r = 30; disp(99);                                  *)
(*   ReturnNoVar      function f(n)                                        *)
(*                      disp(1); if n == c, return; end  disp(2);          *)
(*   ReturnUnassigned function r = f(n)                                    *)
(*                      if n == c, return; end  r = 30;                    *)
(* followed by  disp(y); disp(0);  and, in the last two families, by       *)
(* disp(isempty(y)); disp(0);                                              *)
ReturnFamilies ==
    {"ReturnInIf", "ReturnInFor", "ReturnInWhile", "ReturnInTry", "ReturnTwoVars",
     "ReturnNoVar", "ReturnUnassigned"}

\* if <cond>, r = <value>; return; end
ReturnIf(cond, value) == IfThen(cond, <<Set("r", value), Return>>)

ReturnBody(id) ==
    LET tail == <<Set("r", Num(30)), Disp(Num(99))>>
        nIsC == Equals(Id("n"), Num(id.c))
        kIsC == Equals(Id("k"), Num(id.c))
        loopBody == <<ReturnIf(kIsC, Plus(Num(20), Id("k"))), Disp(Id("k"))>>
    IN CASE id.fam = "ReturnInIf" ->
              <<Set("r", Num(10)), ReturnIf(nIsC, Num(20))>> \o tail
         [] id.fam = "ReturnInFor" ->
              <<Set("r", Num(10)), For("k", Colon(Num(1), Id("n")), loopBody)>> \o tail
         [] id.fam = "ReturnInWhile" ->
              <<Set("r", Num(10)), Set("k", Num(0)),
                While(Less(Id("k"), Id("n")), <<Set("k", Plus(Id("k"), Num(1)))>> \o loopBody)>>
              \o tail
         [] id.fam = "ReturnInTry" ->
              <<Set("r", Num(10)),
                TryCatch(<<Disp(Num(1)), ReturnIf(nIsC, Num(20)), Disp(Num(2))>>, "",
                         <<Disp(Num(98))>>)>> \o tail
         [] id.fam = "ReturnTwoVars" ->
              <<Set("r", Num(10)), Set("q", Num(40)), ReturnIf(nIsC, Num(20))>> \o tail
         [] id.fam = "ReturnNoVar" ->
              <<Disp(Num(1)), IfThen(nIsC, <<Return>>), Disp(Num(2))>>
         [] id.fam = "ReturnUnassigned" ->
              <<IfThen(nIsC, <<Return>>), Set("r", Num(30))>>

ReturnReturns(id) ==
    CASE id.fam = "ReturnNoVar" -> <<>>
      [] id.fam = "ReturnTwoVars" -> <<"r", "q">>
      [] OTHER -> <<"r">>

YieldsEmptyFamily(fam) == fam \in {"ReturnNoVar", "ReturnUnassigned"}

ReturnProgram(id) ==
    Program(<<Set("y", Call("f", <<Num(id.a)>>)),
              Disp(IF YieldsEmptyFamily(id.fam) THEN Call("isempty", <<Id("y")>>) ELSE Id("y")),
              Disp(Num(0))>>,
            <<FunctionDef("f", <<"n">>, ReturnReturns(id), ReturnBody(id))>>)

ReturnPrograms == {Prog(fam, a, 0, c) : fam \in ReturnFamilies, a \in 1..MaxN, c \in 1..(MaxN + 1)}

(* try/catch around a statement that fails:                                *)
(*     try, disp(1); <failing statement>; disp(2); catch e, disp(3); end   *)
(*     disp(0);                                                            *)
(*   TryError       error('boom');                                         *)
(*   TryUndefined   q = nosuch + 1;                                        *)
(*   TryInFunction  boom();        with  function boom()  error('boom');   *)
(*   TryInLoop      for k = 1:n, if k == c, error('boom'); end             *)
(*                    disp(10 + k); end                                    *)
(*   TryInternal    q = zeros(100, 100);   the allocation fails            *)
(*   TryNoError     q = 4;                                                 *)
(*   TryNoVar       error('boom');  and  catch, disp(3);  with no variable *)
TryFamilies ==
    {"TryError", "TryUndefined", "TryInFunction", "TryInLoop", "TryInternal", "TryNoError",
     "TryNoVar"}

Fails(id) ==
    CASE id.fam \in {"TryError", "TryNoVar"} -> CallStmt("error", <<Str("boom")>>)
      [] id.fam = "TryUndefined" -> Set("q", Plus(Id("nosuch"), Num(1)))
      [] id.fam = "TryInFunction" -> CallStmt("boom", <<>>)
      [] id.fam = "TryInLoop" ->
           For("k", Colon(Num(1), Num(id.a)),
               <<IfThen(Equals(Id("k"), Num(id.c)), <<CallStmt("error", <<Str("boom")>>)>>),
                 Disp(Plus(Num(10), Id("k")))>>)
      [] id.fam = "TryInternal" -> Set("q", Call("zeros", <<Num(100), Num(100)>>))
      [] id.fam = "TryNoError" -> Set("q", Num(4))

TryProgram(id) ==
    Program(<<TryCatch(<<Disp(Num(1)), Fails(id), Disp(Num(2))>>,
                       IF id.fam = "TryNoVar" THEN "" ELSE "e", <<Disp(Num(3))>>),
              Disp(Num(0))>>,
            <<FunctionDef("boom", <<>>, <<>>, <<CallStmt("error", <<Str("boom")>>)>>)>>)

TryPrograms ==
    {Prog(fam, 0, 0, 0) : fam \in TryFamilies \ {"TryInLoop"}}
    \cup {Prog("TryInLoop", a, 0, c) : a \in 1..MaxN, c \in 1..(MaxN + 1)}

(* Functions and the variables of their callers, with                      *)
(*     function f()   x = 50; y = 60; z = 70; disp(x);                     *)
(*     function g()   disp(x);                                             *)
(*     function h()   x = a; f(); disp(x);                                 *)
(*     function k()   x = a; g(); disp(2);                                 *)
(*   ScopeWrite        x = a; y = 2; f(); disp(x); disp(y); disp(0);       *)
(*   ScopeRead         x = a; try, g(); disp(2); catch e, disp(3); end     *)
(*                     disp(0);                                            *)
(*   ScopeNestedWrite  h(); disp(0);                                       *)
(*   ScopeNestedRead   try, k(); catch e, disp(3); end  disp(0);           *)
ScopeFamilies == {"ScopeWrite", "ScopeRead", "ScopeNestedWrite", "ScopeNestedRead"}

ScopeFunctions(id) ==
    <<FunctionDef("f", <<>>, <<>>,
          <<Set("x", Num(50)), Set("y", Num(60)), Set("z", Num(70)), Disp(Id("x"))>>),
      FunctionDef("g", <<>>, <<>>, <<Disp(Id("x"))>>),
      FunctionDef("h", <<>>, <<>>, <<Set("x", Num(id.a)), CallStmt("f", <<>>), Disp(Id("x"))>>),
      FunctionDef("k", <<>>, <<>>, <<Set("x", Num(id.a)), CallStmt("g", <<>>), Disp(Num(2))>>)>>

ScopeProgram(id) ==
    Program(
        CASE id.fam = "ScopeWrite" ->
               <<Set("x", Num(id.a)), Set("y", Num(2)), CallStmt("f", <<>>),
                 Disp(Id("x")), Disp(Id("y")), Disp(Num(0))>>
          [] id.fam = "ScopeRead" ->
               <<Set("x", Num(id.a)),
                 TryCatch(<<CallStmt("g", <<>>), Disp(Num(2))>>, "e", <<Disp(Num(3))>>),
                 Disp(Num(0))>>
          [] id.fam = "ScopeNestedWrite" -> <<CallStmt("h", <<>>), Disp(Num(0))>>
          [] id.fam = "ScopeNestedRead" ->
               <<TryCatch(<<CallStmt("k", <<>>)>>, "e", <<Disp(Num(3))>>), Disp(Num(0))>>,
        ScopeFunctions(id))

ScopePrograms == {Prog(fam, a, 0, 0) : fam \in ScopeFamilies, a \in 1..MaxN}

(* Global variables, with                                                  *)
(*     function setG(v)       global G; G = v;                             *)
(*     function r = getG()    global G; r = G;                             *)
(*     function r = getP(G)   global G; r = G;                             *)
(*   GlobalSetInFunction    setG(a); disp(G);                              *)
(*   GlobalReadInFunction   G = a; disp(getG());                           *)
(*   GlobalBetweenFunctions setG(a); disp(getG());                         *)
(*   GlobalParameter        G = a; disp(getP(0));                          *)
GlobalFamilies ==
    {"GlobalSetInFunction", "GlobalReadInFunction", "GlobalBetweenFunctions", "GlobalParameter"}

GlobalFunctions ==
    <<FunctionDef("setG", <<"v">>, <<>>, <<Global(<<"G">>), Set("G", Id("v"))>>),
      FunctionDef("getG", <<>>, <<"r">>, <<Global(<<"G">>), Set("r", Id("G"))>>),
      FunctionDef("getP", <<"G">>, <<"r">>, <<Global(<<"G">>), Set("r", Id("G"))>>)>>

GlobalProgram(id) ==
    Program(
        CASE id.fam = "GlobalSetInFunction" ->
               <<CallStmt("setG", <<Num(id.a)>>), Disp(Id("G"))>>
          [] id.fam = "GlobalReadInFunction" ->
               <<Set("G", Num(id.a)), Disp(Call("getG", <<>>))>>
          [] id.fam = "GlobalBetweenFunctions" ->
               <<CallStmt("setG", <<Num(id.a)>>), Disp(Call("getG", <<>>))>>
          [] id.fam = "GlobalParameter" ->
               <<Set("G", Num(id.a)), Disp(Call("getP", <<Num(0)>>))>>,
        GlobalFunctions)

GlobalPrograms == {Prog(fam, a, 0, 0) : fam \in GlobalFamilies, a \in 1..MaxN}

(* name(args), with  function r = u(n)  r = n + 100;  the vector           *)
(* V = [10 20 ... 10*MaxN] and, in CallBuiltinFirst only,                   *)
(* function r = numel(x)  r = 555;                                         *)
(*     <setup>  try, r = <call>; disp(r); catch e, end                     *)
(*   CallHandle          v = @(t) t + 200;       v(b)                      *)
(*   CallHandleNamedUser u = @(t) t + 200;       u(b)                      *)
(*   CallLinear          v = V;                  v(b)                      *)
(*   CallTwoD            v = V;                  v(1, b)                   *)
(*   CallFlatten         v = V;                  v(:)      disp(numel(r))  *)
(*   CallLogical         v = true;               v(1)                      *)
(*   CallNamedBuiltin    numel = V;              numel(b)                  *)
(*   CallNamedUser       u = V;                  u(b)                      *)
(*   CallNoArgs          v = V;                  v()                       *)
(*   CallThreeArgs       v = V;                  v(1, b, 1)                *)
(*   CallStringArg       v = V;                  v('a')                    *)
(*   CallCell            v = {1, 2};             v(b)                      *)
(*   CallStruct          v.f = 1;                v(b)                      *)
(*   CallString          v = 'abc';              v(b)                      *)
(*   CallUnbound                                 nosuch(b)                 *)
(*   CallBuiltinFirst    w = V;                  numel(w)                  *)
CallFamilies ==
    {"CallHandle", "CallHandleNamedUser", "CallLinear", "CallTwoD", "CallFlatten", "CallLogical",
     "CallNamedBuiltin", "CallNamedUser", "CallNoArgs", "CallThreeArgs", "CallStringArg",
     "CallCell", "CallStruct", "CallString", "CallUnbound", "CallBuiltinFirst"}

Vector == Mat(<<[k \in 1..MaxN |-> Num(10 * k)]>>)
Plus200 == AnonFunc(<<"t">>, Plus(Id("t"), Num(200)))

\* the name the family calls or indexes
CalledName(fam) ==
    CASE fam \in {"CallHandleNamedUser", "CallNamedUser"} -> "u"
      [] fam \in {"CallNamedBuiltin", "CallBuiltinFirst"} -> "numel"
      [] fam = "CallUnbound" -> "nosuch"
      [] OTHER -> "v"

CallSetup(id) ==
    CASE id.fam \in {"CallHandle", "CallHandleNamedUser"} -> <<Set(CalledName(id.fam), Plus200)>>
      [] id.fam = "CallLogical" -> <<Set("v", Bool(TRUE))>>
      [] id.fam = "CallCell" -> <<Set("v", CellLit(<<<<Num(1), Num(2)>>>>))>>
      [] id.fam = "CallStruct" -> <<Assign(Dot(Id("v"), "f"), Num(1), FALSE)>>
      [] id.fam = "CallString" -> <<Set("v", Str("abc"))>>
      [] id.fam = "CallUnbound" -> <<>>
      [] id.fam = "CallBuiltinFirst" -> <<Set("w", Vector)>>
      [] OTHER -> <<Set(CalledName(id.fam), Vector)>>

CallArguments(id) ==
    CASE id.fam = "CallTwoD" -> <<Num(1), Num(id.b)>>
      [] id.fam = "CallFlatten" -> <<BareColon>>
      [] id.fam = "CallLogical" -> <<Num(1)>>
      [] id.fam = "CallNoArgs" -> <<>>
      [] id.fam = "CallThreeArgs" -> <<Num(1), Num(id.b), Num(1)>>
      [] id.fam = "CallStringArg" -> <<Str("a")>>
      [] id.fam = "CallBuiltinFirst" -> <<Id("w")>>
      [] OTHER -> <<Num(id.b)>>

CallProgram(id) ==
    Program(CallSetup(id) \o
            <<TryCatch(<<Set("r", Call(CalledName(id.fam), CallArguments(id))),
                         Disp(IF id.fam = "CallFlatten" THEN Call("numel", <<Id("r")>>)
                              ELSE Id("r"))>>,
                       "e", <<>>)>>,
            <<FunctionDef("u", <<"n">>, <<"r">>, <<Set("r", Plus(Id("n"), Num(100)))>>)>>
            \o (IF id.fam = "CallBuiltinFirst"
                THEN <<FunctionDef("numel", <<"x">>, <<"r">>, <<Set("r", Num(555))>>)>>
                ELSE <<>>))

CallPrograms == {Prog(fam, 0, b, 0) : fam \in CallFamilies, b \in 1..MaxN}

(* Reading by index, with V = [10 20 ... 10*MaxN] and A = [1 2; 3 4]:      *)
(*     <setup>  try, r = <read>; disp(r); catch e, end                     *)
(*   IndexLinear   v = V;   v(a)                                           *)
(*   IndexVector   v = V;   v([1 a])      disp(numel(r))                   *)
(*   IndexMatrix   A = ...; A(a)                                           *)
(*   IndexTwoD     A = ...; A(a, b)                                        *)
IndexFamilies == {"IndexLinear", "IndexVector", "IndexMatrix", "IndexTwoD"}

SquareMatrix == Mat(<<<<Num(1), Num(2)>>, <<Num(3), Num(4)>>>>)

IndexProgram(id) ==
    LET twoD == id.fam \in {"IndexMatrix", "IndexTwoD"}
        name == IF twoD THEN "A" ELSE "v"
        read == CASE id.fam = "IndexVector" -> Call("v", <<Mat(<<<<Num(1), Lit(id.a)>>>>)>>)
                  [] id.fam = "IndexTwoD" -> Call("A", <<Lit(id.a), Lit(id.b)>>)
                  [] OTHER -> Call(name, <<Lit(id.a)>>)
    IN Program(<<Set(name, IF twoD THEN SquareMatrix ELSE Vector),
                 TryCatch(<<Set("r", read),
                            Disp(IF id.fam = "IndexVector" THEN Call("numel", <<Id("r")>>)
                                 ELSE Id("r"))>>,
                          "e", <<>>)>>,
               <<>>)

IndexPrograms ==
    {Prog(fam, a, 0, 0) : fam \in {"IndexLinear", "IndexVector"}, a \in (-1)..(MaxN + 2)}
    \cup {Prog("IndexMatrix", a, 0, 0) : a \in (-1)..6}
    \cup {Prog("IndexTwoD", a, b, 0) : a \in (-1)..4, b \in (-1)..4}

(* Anonymous functions, with  function r = hundred()  r = 100;             *)
(*   AnonSquare         x = a; f = @(x) x^2; y = f(5); disp(y); disp(x);   *)
(*   AnonOuter          x = a; f = @(t) t + x;                             *)
(*                      try, y = f(1); disp(y); catch e, end               *)
(*   AnonAns            ans = a; f = @(t) t; y = f(7); disp(y); disp(ans); *)
(*   AnonReadsAns       ans = a; f = @() isempty(ans);                     *)
(*                      try, y = f(); disp(y); catch e, end                *)
(*   AnonNargin         f = @(t) nargin;                                   *)
(*                      try, y = f(a); disp(y); catch e, end               *)
(*   AnonNamedFunction  hundred = a; f = @(t) t + hundred;                 *)
(*                      try, y = f(1); disp(y); catch e, end               *)
AnonFamilies ==
    {"AnonSquare", "AnonOuter", "AnonAns", "AnonReadsAns", "AnonNargin", "AnonNamedFunction"}

\* try, y = <call>; disp(y); catch e, end
TryShow(call) == TryCatch(<<Set("y", call), Disp(Id("y"))>>, "e", <<>>)

AnonProgram(id) ==
    Program(
        CASE id.fam = "AnonSquare" ->
               <<Set("x", Num(id.a)), Set("f", AnonFunc(<<"x">>, Bin("CARET", Id("x"), Num(2)))),
                 Set("y", Call("f", <<Num(5)>>)), Disp(Id("y")), Disp(Id("x"))>>
          [] id.fam = "AnonOuter" ->
               <<Set("x", Num(id.a)), Set("f", AnonFunc(<<"t">>, Plus(Id("t"), Id("x")))),
                 TryShow(Call("f", <<Num(1)>>))>>
          [] id.fam = "AnonAns" ->
               <<Set("ans", Num(id.a)), Set("f", AnonFunc(<<"t">>, Id("t"))),
                 Set("y", Call("f", <<Num(7)>>)), Disp(Id("y")), Disp(Id("ans"))>>
          [] id.fam = "AnonReadsAns" ->
               <<Set("ans", Num(id.a)),
                 Set("f", AnonFunc(<<>>, Call("isempty", <<Id("ans")>>))),
                 TryShow(Call("f", <<>>))>>
          [] id.fam = "AnonNargin" ->
               <<Set("f", AnonFunc(<<"t">>, Id("nargin"))), TryShow(Call("f", <<Num(id.a)>>))>>
          [] id.fam = "AnonNamedFunction" ->
               <<Set("hundred", Num(id.a)),
                 Set("f", AnonFunc(<<"t">>, Plus(Id("t"), Id("hundred")))),
                 TryShow(Call("f", <<Num(1)>>))>>,
        <<FunctionDef("hundred", <<>>, <<"r">>, <<Set("r", Num(100))>>)>>)

AnonPrograms == {Prog(fam, a, 0, 0) : fam \in AnonFamilies, a \in 1..MaxN}

(* Calls with a arguments 11, 12, ..., with                                *)
(*     function r = two(p, q)                                              *)
(*       disp(nargin); disp(isempty(r)); disp(p); disp(q); r = 5;          *)
(*     function x = inout(x)                                               *)
(*       disp(nargin); disp(isempty(x)); x = 5;                            *)
(*     function r = uses(hundred)    r = hundred + 1;                      *)
(*     function r = hundred()        r = 100;                              *)
(*   BindTwo            try, y = two(11, ...); disp(y); catch e, end       *)
(*   BindInOut          try, y = inout(11, ...); disp(y); catch e, end     *)
(*   BindNamedFunction  try, y = uses(11, ...); disp(y); catch e, end      *)
BindFamilies == {"BindTwo", "BindInOut", "BindNamedFunction"}

BindFunctions ==
    <<FunctionDef("two", <<"p", "q">>, <<"r">>,
          <<Disp(Id("nargin")), Disp(Call("isempty", <<Id("r")>>)), Disp(Id("p")), Disp(Id("q")),
            Set("r", Num(5))>>),
      FunctionDef("inout", <<"x">>, <<"x">>,
          <<Disp(Id("nargin")), Disp(Call("isempty", <<Id("x")>>)), Set("x", Num(5))>>),
      FunctionDef("uses", <<"hundred">>, <<"r">>, <<Set("r", Plus(Id("hundred"), Num(1)))>>),
      FunctionDef("hundred", <<>>, <<"r">>, <<Set("r", Num(100))>>)>>

BindCallee(fam) ==
    CASE fam = "BindTwo" -> "two"
      [] fam = "BindInOut" -> "inout"
      [] fam = "BindNamedFunction" -> "uses"

BindProgram(id) ==
    Program(<<TryShow(Call(BindCallee(id.fam), [n \in 1..id.a |-> Num(10 + n)]))>>, BindFunctions)

BindPrograms == {Prog(fam, a, 0, 0) : fam \in BindFamilies, a \in 0..MaxN}

(* for loops over a range with a columns:                                  *)
(*   ForSum      s = 0; for i = 1:a, s = s + i; end  disp(s);              *)
(*   ForRow      for v = [10 20 ... 10*a], disp(v); end  disp(0);          *)
(*               (for v = [] when a = 0)                                   *)
(*   ForMatrix   for c = [11 12 ... ; 21 22 ...]                           *)
(*                 disp(numel(c)); disp(c(1)); disp(c(2)); end  disp(0);   *)
(*   ForColumn   for c = [1; 2; ...; a], disp(numel(c)); end  disp(0);     *)
(*   ForNoRows   n = 0; for c = zeros(0, a), n = n + 1; disp(numel(c));    *)
(*               end  disp(n);                                             *)
(*   ForLogical  for c = true, disp(c); end  disp(0);                      *)
(*   ForString   try, for c = 'abc', disp(1); end, catch e, end            *)
(*   ForCell     try, for c = {1, 2}, disp(1); end, catch e, end           *)
ForFamilies ==
    {"ForSum", "ForRow", "ForMatrix", "ForColumn", "ForNoRows", "ForLogical", "ForString",
     "ForCell"}

ForProgram(id) ==
    Program(
        CASE id.fam = "ForSum" ->
               <<Set("s", Num(0)),
                 For("i", Colon(Num(1), Num(id.a)), <<Set("s", Plus(Id("s"), Id("i")))>>),
                 Disp(Id("s"))>>
          [] id.fam = "ForRow" ->
               <<For("v", IF id.a = 0 THEN Mat(<<>>) ELSE Mat(<<[n \in 1..id.a |-> Num(10 * n)]>>),
                     <<Disp(Id("v"))>>),
                 Disp(Num(0))>>
          [] id.fam = "ForMatrix" ->
               <<For("c", Mat(<<[n \in 1..id.a |-> Num(10 + n)], [n \in 1..id.a |-> Num(20 + n)]>>),
                     <<Disp(Call("numel", <<Id("c")>>)), Disp(Call("c", <<Num(1)>>)),
                       Disp(Call("c", <<Num(2)>>))>>),
                 Disp(Num(0))>>
          [] id.fam = "ForColumn" ->
               <<For("c", Mat([n \in 1..id.a |-> <<Num(n)>>]),
                     <<Disp(Call("numel", <<Id("c")>>))>>),
                 Disp(Num(0))>>
          [] id.fam = "ForNoRows" ->
               <<Set("n", Num(0)),
                 For("c", Call("zeros", <<Num(0), Num(id.a)>>),
                     <<Set("n", Plus(Id("n"), Num(1))), Disp(Call("numel", <<Id("c")>>))>>),
                 Disp(Id("n"))>>
          [] id.fam = "ForLogical" ->
               <<For("c", Bool(TRUE), <<Disp(Id("c"))>>), Disp(Num(0))>>
          [] id.fam = "ForString" ->
               <<TryCatch(<<For("c", Str("abc"), <<Disp(Num(1))>>)>>, "e", <<>>)>>
          [] id.fam = "ForCell" ->
               <<TryCatch(<<For("c", CellLit(<<<<Num(1), Num(2)>>>>), <<Disp(Num(1))>>)>>,
                          "e", <<>>)>>,
        <<>>)

ForPrograms ==
    {Prog(fam, a, 0, 0) : fam \in {"ForSum", "ForRow", "ForColumn", "ForNoRows"}, a \in 0..MaxN}
    \cup {Prog("ForMatrix", a, 0, 0) : a \in 1..MaxN}
    \cup {Prog(fam, 0, 0, 0) : fam \in {"ForLogical", "ForString", "ForCell"}}

(* While loops and their conditions.                                       *)
(*   WhileCount:  k = 0; while below(k, a), k = k + 1; disp(k); end;       *)
(*                disp(0)   with                                           *)
(*                function r = below(k, n), disp(100); r = k < n; end      *)
(*   the others:  try, while <cond>, disp(1); break; end; disp(0);         *)
(*                catch e, end                                             *)
(*   with <cond> 'abc', '', {1}, q (after q.a = 1), @disp and nothing(),   *)
(*   a call of a function that returns no value                            *)

WhileConditions ==
    {"WhileString", "WhileEmptyString", "WhileCell", "WhileStruct", "WhileHandle",
     "WhileEmptyValue"}
WhileFamilies == {"WhileCount"} \cup WhileConditions

WhileCondition(fam) ==
    CASE fam = "WhileString" -> Str("abc")
      [] fam = "WhileEmptyString" -> Str("")
      [] fam = "WhileCell" -> CellLit(<<<<Num(1)>>>>)
      [] fam = "WhileStruct" -> Id("q")
      [] fam = "WhileHandle" -> FuncHandle("disp")
      [] fam = "WhileEmptyValue" -> Call("nothing", <<>>)

WhileProgram(id) ==
    Program(
        IF id.fam = "WhileCount"
        THEN <<Set("k", Num(0)),
               While(Call("below", <<Id("k"), Num(id.a)>>),
                     <<Set("k", Plus(Id("k"), Num(1))), Disp(Id("k"))>>),
               Disp(Num(0))>>
        ELSE <<Assign(Dot(Id("q"), "a"), Num(1), FALSE),
               TryCatch(<<While(WhileCondition(id.fam), <<Disp(Num(1)), Break>>),
                          Disp(Num(0))>>, "e", <<>>)>>,
        <<FunctionDef("below", <<"k", "n">>, <<"r">>,
                      <<Disp(Num(100)), Set("r", Less(Id("k"), Id("n")))>>),
          FunctionDef("nothing", <<>>, <<>>, <<>>)>>)

WhilePrograms ==
    {Prog("WhileCount", a, 0, 0) : a \in 0..MaxN}
        \cup {Prog(fam, 0, 0, 0) : fam \in WhileConditions}

PreludeProgram(id) ==
    CASE id.fam = "Empty" -> Program(<<>>, <<>>)
      [] id.fam = "Workspace" ->
           Program(<<Set("i", Num(5)), Set("j", Num(5)), Set("x", Num(7)), Set("s", Num(9))>>, <<>>)
      [] id.fam = "Leak" ->
           Program(<<CallStmt("fail", <<>>)>>,
                   <<FunctionDef("fail", <<>>, <<>>, <<CallStmt("error", <<Str("fail")>>)>>)>>)

(* Matrices of every origin, with A = [1 2; 3 4] and W = SizeMod, the      *)
(* number of size_t values:                                                *)
(*   ShapeLiteral      x = [1 2 a; 4 5 6];                                 *)
(*   ShapeRange        x = a:b;                                            *)
(*   ShapeArith        x = A + a; y = [1 2 3] < a; z = [1 2 3]' * [1 a];   *)
(*   ShapeTranspose    x = (1:a)'; y = [x, x]';                            *)
(*   ShapeConcat       x = [1:a, 7; 1:b, 8];                               *)
(*   ShapeIndex        A = ...; x = A(a, :); y = A(:, b); z = A([1 a]);    *)
(*   ShapeGrowLinear   A = ...; A(a) = 9;                                  *)
(*   ShapeGrowTwoD     A = ...; A(a, b) = 9;                               *)
(*   ShapeCreate       x(a, b) = 9;                                        *)
(*   ShapeReshape      x = reshape(1:6, a, b);                             *)
(*   ShapeReshapeDims  x = reshape(1:6, [a b]);                            *)
(*   ShapeReshapeWide  x = reshape([], 256, W / 256);                      *)
(*   ShapeGrowWide     x = 1; x(4, W / 4 + 1) = 9;                         *)
ShapeFamilies ==
    {"ShapeLiteral", "ShapeRange", "ShapeArith", "ShapeTranspose", "ShapeConcat", "ShapeIndex",
     "ShapeGrowLinear", "ShapeGrowTwoD", "ShapeCreate", "ShapeReshape", "ShapeReshapeDims",
     "ShapeReshapeWide", "ShapeGrowWide"}

OneToSix == Colon(Num(1), Num(6))
AllOf == Colon(Nil, Nil)
\* name(indices) = value;
SetAt(name, indices, value) == Assign(Call(name, indices), value, FALSE)

ShapeStatements(id) ==
    CASE id.fam = "ShapeLiteral" ->
           <<Set("x", Mat(<<<<Num(1), Num(2), Lit(id.a)>>, <<Num(4), Num(5), Num(6)>>>>))>>
      [] id.fam = "ShapeRange" -> <<Set("x", Colon(Lit(id.a), Lit(id.b)))>>
      [] id.fam = "ShapeArith" ->
           <<Set("x", Plus(SquareMatrix, Lit(id.a))),
             Set("y", Less(Mat(<<<<Num(1), Num(2), Num(3)>>>>), Lit(id.a))),
             Set("z", Times(Unary("TRANSPOSE", Mat(<<<<Num(1), Num(2), Num(3)>>>>)),
                            Mat(<<<<Num(1), Lit(id.a)>>>>)))>>
      [] id.fam = "ShapeTranspose" ->
           <<Set("x", Unary("TRANSPOSE", Colon(Num(1), Lit(id.a)))),
             Set("y", Unary("TRANSPOSE", Mat(<<<<Id("x"), Id("x")>>>>)))>>
      [] id.fam = "ShapeConcat" ->
           <<Set("x", Mat(<<<<Colon(Num(1), Lit(id.a)), Num(7)>>,
                            <<Colon(Num(1), Lit(id.b)), Num(8)>>>>))>>
      [] id.fam = "ShapeIndex" ->
           <<Set("A", SquareMatrix),
             Set("x", Call("A", <<Lit(id.a), AllOf>>)),
             Set("y", Call("A", <<AllOf, Lit(id.b)>>)),
             Set("z", Call("A", <<Mat(<<<<Num(1), Lit(id.a)>>>>)>>))>>
      [] id.fam = "ShapeGrowLinear" ->
           <<Set("A", SquareMatrix), SetAt("A", <<Lit(id.a)>>, Num(9))>>
      [] id.fam = "ShapeGrowTwoD" ->
           <<Set("A", SquareMatrix), SetAt("A", <<Lit(id.a), Lit(id.b)>>, Num(9))>>
      [] id.fam = "ShapeCreate" -> <<SetAt("x", <<Lit(id.a), Lit(id.b)>>, Num(9))>>
      [] id.fam = "ShapeReshape" ->
           <<Set("x", Call("reshape", <<OneToSix, Lit(id.a), Lit(id.b)>>))>>
      [] id.fam = "ShapeReshapeDims" ->
           <<Set("x", Call("reshape", <<OneToSix, Mat(<<<<Lit(id.a), Lit(id.b)>>>>)>>))>>
      [] id.fam = "ShapeReshapeWide" ->
           <<Set("x", Call("reshape", <<Mat(<<>>), Num(256), Num(SizeMod \div 256)>>))>>
      [] id.fam = "ShapeGrowWide" ->
           <<Set("x", Num(1)), SetAt("x", <<Num(4), Num((SizeMod \div 4) + 1)>>, Num(9))>>

ShapeProgram(id) == Program(ShapeStatements(id), <<>>)

ShapePrograms ==
    {Prog(fam, a, 0, 0) :
        fam \in {"ShapeLiteral", "ShapeArith", "ShapeTranspose"}, a \in 0..MaxN}
    \cup {Prog(fam, a, b, 0) : fam \in {"ShapeRange", "ShapeConcat"}, a \in 0..MaxN, b \in 0..MaxN}
    \cup {Prog("ShapeIndex", a, b, 0) : a \in 1..2, b \in 1..2}
    \cup {Prog("ShapeGrowLinear", a, 0, 0) : a \in 0..(MaxN + 4)}
    \cup {Prog(fam, a, b, 0) : fam \in {"ShapeGrowTwoD", "ShapeCreate"},
                               a \in 0..(MaxN + 1), b \in 0..(MaxN + 1)}
    \cup {Prog(fam, a, b, 0) : fam \in {"ShapeReshape", "ShapeReshapeDims"},
                               a \in 0..6, b \in 0..MaxN}
    \cup {Prog(fam, 0, 0, 0) : fam \in {"ShapeReshapeWide", "ShapeGrowWide"}}

(* Elementwise operations on operands of every shape pair:                 *)
(*   Broadcast   L = <shape a>; R = <shape b>; T = L <op c> R;             *)
(* a shape without elements is written zeros(rows, cols), any other as a   *)
(* literal holding 1, 2, ... in row-major order (the right operand holds   *)
(* 2, 3, ...)                                                              *)
Shapes ==
    <<[rows |-> 0, cols |-> 0], [rows |-> 1, cols |-> 1], [rows |-> 1, cols |-> 2],
      [rows |-> 2, cols |-> 1], [rows |-> 2, cols |-> 2], [rows |-> 1, cols |-> 3],
      [rows |-> 3, cols |-> 1], [rows |-> 2, cols |-> 3], [rows |-> 3, cols |-> 0],
      [rows |-> 0, cols |-> 3]>>

BroadcastOps == <<"PLUS", "MINUS", "DOT_STAR", "DOT_CARET", "EQ", "NE", "LT", "GT", "LE", "GE">>

\* the expression that yields a matrix of shape sh
ShapeExpr(sh, first) ==
    IF sh.rows * sh.cols = 0 THEN Call("zeros", <<Num(sh.rows), Num(sh.cols)>>)
    ELSE Mat([i \in 1..sh.rows |-> [j \in 1..sh.cols |-> Num(first + (i - 1) * sh.cols + j - 1)]])

BroadcastProgram(id) ==
    Program(<<Set("L", ShapeExpr(Shapes[id.a], 1)),
              Set("R", ShapeExpr(Shapes[id.b], 2)),
              Set("T", Bin(BroadcastOps[id.c], Id("L"), Id("R")))>>,
            <<>>)

\* every shape pair under every operator; the power is taken of operands
\* that hold elements only (a power of the junk value is no integer of the
\* model)
BroadcastPrograms ==
    {p \in {Prog("Broadcast", a, b, c) : a \in 1..Len(Shapes), b \in 1..Len(Shapes),
                                         c \in 1..Len(BroadcastOps)} :
        BroadcastOps[p.c] = "DOT_CARET" =>
            Shapes[p.a].rows * Shapes[p.a].cols > 0 /\ Shapes[p.b].rows * Shapes[p.b].cols > 0}

(* Concatenation of operands of every shape pair:                          *)
(*   Concat   L = <shape a>; R = <shape b>; T = [L, R];     (c = 1)        *)
(*                                          T = [L; R];     (c = 2)        *)
ConcatProgram(id) ==
    Program(<<Set("L", ShapeExpr(Shapes[id.a], 1)),
              Set("R", ShapeExpr(Shapes[id.b], 2)),
              Set("T", IF id.c = 1 THEN Mat(<<<<Id("L"), Id("R")>>>>)
                       ELSE Mat(<<<<Id("L")>>, <<Id("R")>>>>))>>,
            <<>>)

ConcatPrograms ==
    {Prog("Concat", a, b, c) : a \in 1..Len(Shapes), b \in 1..Len(Shapes), c \in 1..2}

(* Assignment to one element of a variable of every shape:                 *)
(*   AssignTwoD   A = <shape a>; A(b, c) = 9; T = A(b, c);                 *)
AssignProgram(id) ==
    Program(<<Set("A", ShapeExpr(Shapes[id.a], 1)),
              SetAt("A", <<Num(id.b), Num(id.c)>>, Num(9)),
              Set("T", Call("A", <<Num(id.b), Num(id.c)>>))>>,
            <<>>)

\* a column index so far out that rows * cols leaves the range of size_t
WideColumn == (SizeMod \div 4) + 1

AssignPrograms ==
    {Prog("AssignTwoD", a, b, c) : a \in 1..Len(Shapes), b \in 1..(MaxN + 1), c \in 1..(MaxN + 1)}
    \cup {Prog("AssignTwoD", 2, 4, WideColumn)}

(* A second name for a value, then an assignment to a part of the first:   *)
(*   AliasIndexed    A = [10 20 30];   B = A;  A(a) = 9;                   *)
(*   AliasTwoD       A = [1 2; 3 4];   B = A;  A(a, 1) = 9;                *)
(*   AliasField      A.f = 10;         B = A;  A.f = a;                    *)
(*   AliasNewField   A.f = 10;         B = A;  A.g = a;                    *)
(*   AliasCell       A = {10, 20};     B = A;  A{a} = 9;                   *)
(*   AliasParam      A = [10 20 30];   B = A;  change(A);                  *)
(*                   with  function change(P)  Q = P; P(a) = 9;            *)
AliasFamilies ==
    {"AliasIndexed", "AliasTwoD", "AliasField", "AliasNewField", "AliasCell", "AliasParam"}

Tens == Mat(<<<<Num(10), Num(20), Num(30)>>>>)

\* the statement that binds A
AliasSetup(id) ==
    CASE id.fam \in {"AliasIndexed", "AliasParam"} -> Set("A", Tens)
      [] id.fam = "AliasTwoD" -> Set("A", SquareMatrix)
      [] id.fam \in {"AliasField", "AliasNewField"} -> Assign(Dot(Id("A"), "f"), Num(10), FALSE)
      [] id.fam = "AliasCell" -> Set("A", CellLit(<<<<Num(10), Num(20)>>>>))

\* the statement that assigns to a part of A
AliasChange(id) ==
    CASE id.fam = "AliasIndexed" -> SetAt("A", <<Num(id.a)>>, Num(9))
      [] id.fam = "AliasTwoD" -> SetAt("A", <<Num(id.a), Num(1)>>, Num(9))
      [] id.fam = "AliasField" -> Assign(Dot(Id("A"), "f"), Num(id.a), FALSE)
      [] id.fam = "AliasNewField" -> Assign(Dot(Id("A"), "g"), Num(id.a), FALSE)
      [] id.fam = "AliasCell" -> Assign(CellIndex(Id("A"), <<Num(id.a)>>), Num(9), FALSE)
      [] id.fam = "AliasParam" -> CallStmt("change", <<Id("A")>>)

AliasProgram(id) ==
    Program(<<AliasSetup(id), Set("B", Id("A")), AliasChange(id)>>,
            IF id.fam = "AliasParam"
            THEN <<FunctionDef("change", <<"P">>, <<>>,
                               <<Set("Q", Id("P")), SetAt("P", <<Num(id.a)>>, Num(9))>>)>>
            ELSE <<>>)

AliasPrograms == {Prog(fam, a, 0, 0) : fam \in AliasFamilies, a \in 1..(MaxN + 1)}

(* An assignment to each shape of target, with and without the ;           *)
(*   EchoIdentifier  x = c              EchoField   R.f = c                *)
(*   EchoIndexed     A = [10 20 30];    EchoCell    K{1} = c               *)
(*                   A(2) = c           EchoEmpty   x = []                 *)
(* b = 1: the assignment ends the line; b = 0: it is followed by ;         *)
EchoFamilies == {"EchoIdentifier", "EchoIndexed", "EchoField", "EchoCell", "EchoEmpty"}

EchoTargetName(fam) ==
    CASE fam \in {"EchoIdentifier", "EchoEmpty"} -> "x"
      [] fam = "EchoIndexed" -> "A"
      [] fam = "EchoField" -> "R"
      [] fam = "EchoCell" -> "K"

EchoAssignment(id) ==
    CASE id.fam = "EchoIdentifier" -> Assign(Id("x"), Num(id.c), id.b = 1)
      [] id.fam = "EchoIndexed" -> Assign(Call("A", <<Num(2)>>), Num(id.c), id.b = 1)
      [] id.fam = "EchoField" -> Assign(Dot(Id("R"), "f"), Num(id.c), id.b = 1)
      [] id.fam = "EchoCell" -> Assign(CellIndex(Id("K"), <<Num(1)>>), Num(id.c), id.b = 1)
      [] id.fam = "EchoEmpty" -> Assign(Id("x"), Mat(<<>>), id.b = 1)

EchoProgram(id) ==
    Program((IF id.fam = "EchoIndexed" THEN <<Set("A", Tens)>> ELSE <<>>) \o <<EchoAssignment(id)>>,
            <<>>)

EchoPrograms == {Prog(fam, 0, b, c) : fam \in EchoFamilies, b \in 0..1, c \in 1..MaxN}

(* A signal raised in a try body (c = 1) and in the same body with the try *)
(* taken away (c = 0):                                                     *)
(*   TryBreakFor       for k = 1:3                                         *)
(*                       try, disp(k); if k == a, break; end; disp(10 + k) *)
(*                       catch caught, disp(99); end                       *)
(*                       disp(20 + k);                                     *)
(*                     end; disp(0)                                        *)
(*   TryContinueFor    the same with continue                              *)
(*   TryBreakWhile     k = 0; while k < 3, k = k + 1; ... break ... end    *)
(*   TryContinueWhile  the same with continue                              *)
(*   TryReturn         y = early(); disp(y)  with                          *)
(*                     function r = early()                                *)
(*                       r = 1; for k = 1:3 ... r = 2; return ... end      *)
(*                       disp(50); r = 3;                                  *)
SignalFamilies ==
    {"TryBreakFor", "TryContinueFor", "TryBreakWhile", "TryContinueWhile", "TryReturn"}

SignalTrips == 3

SignalStatement(fam) ==
    CASE fam \in {"TryBreakFor", "TryBreakWhile"} -> <<Break>>
      [] fam \in {"TryContinueFor", "TryContinueWhile"} -> <<Continue>>
      [] fam = "TryReturn" -> <<Set("r", Num(2)), Return>>

\* the statements that raise the signal at trip a
SignalBody(id) ==
    <<Disp(Id("k")),
      IfThen(Equals(Id("k"), Num(id.a)), SignalStatement(id.fam)),
      Disp(Plus(Num(10), Id("k")))>>

\* the body of the loop
SignalTrip(id) ==
    (IF id.c = 1 THEN <<TryCatch(SignalBody(id), "caught", <<Disp(Num(99))>>)>>
     ELSE SignalBody(id))
        \o <<Disp(Plus(Num(20), Id("k")))>>

SignalLoop(id) ==
    IF id.fam \in {"TryBreakWhile", "TryContinueWhile"}
    THEN <<Set("k", Num(0)),
           While(Less(Id("k"), Num(SignalTrips)),
                 <<Set("k", Plus(Id("k"), Num(1)))>> \o SignalTrip(id))>>
    ELSE <<For("k", Colon(Num(1), Num(SignalTrips)), SignalTrip(id))>>

SignalProgram(id) ==
    IF id.fam = "TryReturn"
    THEN Program(<<Set("y", Call("early", <<>>)), Disp(Id("y"))>>,
                 <<FunctionDef("early", <<>>, <<"r">>,
                               <<Set("r", Num(1))>> \o SignalLoop(id)
                                   \o <<Disp(Num(50)), Set("r", Num(3))>>)>>)
    ELSE Program(SignalLoop(id) \o <<Disp(Num(0))>>, <<>>)

SignalPrograms ==
    {Prog(fam, a, 0, c) : fam \in SignalFamilies, a \in 1..(SignalTrips + 1), c \in 0..1}

(* A call that ends, and an assignment after it, with                      *)
(*     function plain()    v = 1;                                          *)
(*     function early2()   v = 1; return; v = 2;                           *)
(*     function bad()      v = 1; error('bad');                            *)
(*   AfterNormal   plain(); w = a;                                         *)
(*   AfterReturn   early2(); w = a;                                        *)
(*   AfterError    try, bad(); catch trouble, end; w = a;                  *)
AfterFamilies == {"AfterNormal", "AfterReturn", "AfterError"}

AfterProgram(id) ==
    Program(
        (CASE id.fam = "AfterNormal" -> <<CallStmt("plain", <<>>)>>
           [] id.fam = "AfterReturn" -> <<CallStmt("early2", <<>>)>>
           [] id.fam = "AfterError" -> <<TryCatch(<<CallStmt("bad", <<>>)>>, "trouble", <<>>)>>)
            \o <<Set("w", Num(id.a))>>,
        <<FunctionDef("plain", <<>>, <<>>, <<Set("v", Num(1))>>),
          FunctionDef("early2", <<>>, <<>>, <<Set("v", Num(1)), Return, Set("v", Num(2))>>),
          FunctionDef("bad", <<>>, <<>>, <<Set("v", Num(1)), CallStmt("error", <<Str("bad")>>)>>)>>)

AfterPrograms == {Prog(fam, a, 0, 0) : fam \in AfterFamilies, a \in 1..MaxN}

(* A break and a continue in a function that has no loop, called in a loop *)
(* of the caller, with                                                     *)
(*     function stop()   inside = 1; break;                                *)
(*     function skip()   inside = 1; continue;                             *)
(*   CrossBreak       for k = 1:3                                          *)
(*                      disp(k); if k == a, stop(); end; disp(10 + k);     *)
(*                    end; disp(0);                                        *)
(*   CrossContinue    the same with skip()                                 *)
(*   CrossBreakWhile  k = 0; while k < 3, k = k + 1; ... stop() ... end    *)
CrossFamilies == {"CrossBreak", "CrossContinue", "CrossBreakWhile"}

CrossTrip(id) ==
    <<Disp(Id("k")),
      IfThen(Equals(Id("k"), Num(id.a)),
             <<CallStmt(IF id.fam = "CrossContinue" THEN "skip" ELSE "stop", <<>>)>>),
      Disp(Plus(Num(10), Id("k")))>>

CrossProgram(id) ==
    Program(
        (IF id.fam = "CrossBreakWhile"
         THEN <<Set("k", Num(0)),
                While(Less(Id("k"), Num(SignalTrips)),
                      <<Set("k", Plus(Id("k"), Num(1)))>> \o CrossTrip(id))>>
         ELSE <<For("k", Colon(Num(1), Num(SignalTrips)), CrossTrip(id))>>)
            \o <<Disp(Num(0))>>,
        <<FunctionDef("stop", <<>>, <<>>, <<Set("inside", Num(1)), Break>>),
          FunctionDef("skip", <<>>, <<>>, <<Set("inside", Num(1)), Continue>>)>>)

CrossPrograms == {Prog(fam, a, 0, 0) : fam \in CrossFamilies, a \in 1..(SignalTrips + 1)}

(* The operators && and || with a right operand that is seen or fails when *)
(* it is evaluated, with                                                   *)
(*     function r = noisy(v)   disp(99); r = v;                            *)
(*     function r = failing()  error('failing');                           *)
(*   ShortAndOutput   y = a && noisy(c); disp(y)                           *)
(*   ShortOrOutput    y = a || noisy(c); disp(y)                           *)
(*   ShortAndError    y = a && failing(); disp(y)                          *)
(*   ShortOrError     y = a || failing(); disp(y)                          *)
ShortFamilies == {"ShortAndOutput", "ShortOrOutput", "ShortAndError", "ShortOrError"}

ShortOperator(fam) ==
    IF fam \in {"ShortAndOutput", "ShortAndError"} THEN "SHORT_AND" ELSE "SHORT_OR"

ShortRight(id) ==
    IF id.fam \in {"ShortAndOutput", "ShortOrOutput"}
    THEN Call("noisy", <<Num(id.c)>>)
    ELSE Call("failing", <<>>)

ShortProgram(id) ==
    Program(<<Set("y", Bin(ShortOperator(id.fam), Num(id.a), ShortRight(id))), Disp(Id("y"))>>,
            <<FunctionDef("noisy", <<"v">>, <<"r">>, <<Disp(Num(99)), Set("r", Id("v"))>>),
              FunctionDef("failing", <<>>, <<"r">>, <<CallStmt("error", <<Str("failing")>>)>>)>>)

ShortPrograms == {Prog(fam, a, 0, c) : fam \in ShortFamilies, a \in 0..1, c \in 0..1}

\* Source texts.  A function defined behind its call:
\*   Forward       disp(twice(a));
\*                 function r = twice(n)
\*                 r = n + n;
\*                 end
\*   ForwardAssign x = twice(a);  the definition of twice;  disp(x);
\*   ForwardError  error('stop');  the definition of twice
\*   Undefined     disp(thrice(a));
\* Texts with an error of the lexer or the parser behind two statements,
\*   x = 1;
\*   disp(2);
\* and, but for the last, inside a try with  catch e  disp(3);
\*   CutString     y = 'abc      the line ends inside the literal
\*   OpenParen     the definition of twice, then  y = (3;
\*   BadCharacter  y = 3 $
\*   NoEnd         if x          the text ends inside the if
\* and the same with a runtime error:
\*   Caught        error('boom');
TwiceText == "function r = twice(n)\nr = n + n;\nend\n"
TwoStatements == "x = 1;\ndisp(2);\n"
InTry(line) == "try\n" \o line \o "\ncatch e\ndisp(3);\nend\n"

ForwardFamilies == {"Forward", "ForwardAssign", "Undefined"}
BrokenFamilies == {"CutString", "OpenParen", "BadCharacter", "NoEnd"}
SourcePrograms ==
    {Prog(fam, a, 0, 0) : fam \in ForwardFamilies, a \in 0 .. MaxN}
    \cup {Prog(fam, 0, 0, 0) : fam \in BrokenFamilies \cup {"ForwardError", "Caught"}}

SourceText(id) ==
    CASE id.fam = "Forward" -> "disp(twice(" \o ToString(id.a) \o "));\n" \o TwiceText
      [] id.fam = "ForwardAssign" ->
            "x = twice(" \o ToString(id.a) \o ");\n" \o TwiceText \o "disp(x);\n"
      [] id.fam = "ForwardError" -> "error('stop');\n" \o TwiceText
      [] id.fam = "Undefined" -> "disp(thrice(" \o ToString(id.a) \o "));\n"
      [] id.fam = "CutString" -> TwoStatements \o InTry("y = 'abc")
      [] id.fam = "OpenParen" -> TwoStatements \o TwiceText \o InTry("y = (3;")
      [] id.fam = "BadCharacter" -> TwoStatements \o InTry("y = 3 $")
      [] id.fam = "NoEnd" -> TwoStatements \o "if x\n"
      [] id.fam = "Caught" -> TwoStatements \o InTry("error('boom');")

\* the characters of a string
Chars(s) == [i \in 1 .. Len(s) |-> SubSeq(s, i, i)]

Preludes == {Prog(fam, 0, 0, 0) : fam \in {"Empty", "Workspace", "Leak"}}

Programs == NestPrograms \cup ReturnPrograms \cup TryPrograms \cup ScopePrograms
    \cup GlobalPrograms \cup CallPrograms \cup IndexPrograms
    \cup AnonPrograms \cup BindPrograms \cup ForPrograms \cup WhilePrograms
    \cup ShapePrograms \cup BroadcastPrograms \cup ConcatPrograms \cup AssignPrograms
    \cup AliasPrograms \cup EchoPrograms \cup SignalPrograms
    \cup AfterPrograms \cup CrossPrograms \cup ShortPrograms

\* the Program the parser builds from the source text of id
ProgramOf(id) ==
    IF id \in Preludes THEN PreludeProgram(id)
    ELSE IF id \in NestPrograms THEN NestProgram(id)
    ELSE IF id \in ReturnPrograms THEN ReturnProgram(id)
    ELSE IF id \in TryPrograms THEN TryProgram(id)
    ELSE IF id \in ScopePrograms THEN ScopeProgram(id)
    ELSE IF id \in GlobalPrograms THEN GlobalProgram(id)
    ELSE IF id \in CallPrograms THEN CallProgram(id)
    ELSE IF id \in IndexPrograms THEN IndexProgram(id)
    ELSE IF id \in AnonPrograms THEN AnonProgram(id)
    ELSE IF id \in BindPrograms THEN BindProgram(id)
    ELSE IF id \in ForPrograms THEN ForProgram(id)
    ELSE IF id \in WhilePrograms THEN WhileProgram(id)
    ELSE IF id \in ShapePrograms THEN ShapeProgram(id)
    ELSE IF id \in BroadcastPrograms THEN BroadcastProgram(id)
    ELSE IF id \in ConcatPrograms THEN ConcatProgram(id)
    ELSE IF id \in AssignPrograms THEN AssignProgram(id)
    ELSE IF id \in AliasPrograms THEN AliasProgram(id)
    ELSE IF id \in EchoPrograms THEN EchoProgram(id)
    ELSE IF id \in SignalPrograms THEN SignalProgram(id)
    ELSE IF id \in AfterPrograms THEN AfterProgram(id)
    ELSE IF id \in CrossPrograms THEN CrossProgram(id)
    ELSE ShortProgram(id)

----------------------------------------------------------------------------
(* Actions *)

\* executeString(source, filename): lex, parse, execute
ExecuteString(p, ub) ==
    /\ ~Fatal(last.exc)
    /\ nCalls < MaxCalls
    /\ Leave("executeString", p, execute(ProgramOf(p), Self(ub)))
    /\ front' = NoFront

\* the calls of a session but the last set the session up
ExecutePrelude ==
    \E p \in Preludes, ub \in UBChoices : nCalls < MaxCalls - 1 /\ ExecuteString(p, ub)

\* the last call of a session runs one of the programs
ExecuteProgram ==
    \E p \in Programs, ub \in UBChoices : nCalls = MaxCalls - 1 /\ ExecuteString(p, ub)

\* the Lexer and the Parser of executeString at work on the text
FrontEnd(code) ==
    With(tokenize(code), LAMBDA lexed :
        IF lexed.exc # "none"
        THEN Front("tokenize", code, lexed.exc, lexed.msg, lexed.tokens, Program(<<>>, <<>>))
        ELSE With(parse(lexed.tokens), LAMBDA parsed :
            Front("parse", code, parsed.exc, parsed.msg, lexed.tokens,
                  IF parsed.exc = "none" THEN parsed.node ELSE Program(<<>>, <<>>))))

\* an executeString that goes on when the lexer or the parser threw
executeStringRegardless(fr, st) == execute(fr.program, st)

\* executeString behind the lexer and the parser: their exception escapes,
\* else the program is executed
executeString(fr, st) ==
    IF fr.exc # "none" THEN Throw(st, fr.exc, fr.msg) ELSE execute(fr.program, st)

\* the last call of a session may also be given a source text
ExecuteSource ==
    \E p \in SourcePrograms, ub \in UBChoices :
        /\ ~Fatal(last.exc)
        /\ nCalls = MaxCalls - 1
        /\ front' = FrontEnd(Chars(SourceText(p)))
        /\ Leave("executeString", p, executeString(FrontEnd(Chars(SourceText(p))), Self(ub)))

Next == ExecutePrelude \/ ExecuteProgram \/ ExecuteSource \/ SetOutput

Spec == Init /\ [][Next]_vars

\* every construct the programs use has a translation
Modelled == last.exc # "unmodelled"

----------------------------------------------------------------------------
(* Reading the output *)

\* the numbers the displayed values hold, one per output entry
RECURSIVE Shown(_)
Shown(out) ==
    IF Len(out) = 0 THEN <<>>
    ELSE <<IF isNumeric(out[1].value) /\ numel(out[1].value.matrix_) = 1
           THEN out[1].value.matrix_.data_[1] ELSE -1>> \o Shown(Tail(out))

\* the concatenation of f[1], ..., f[n]
RECURSIVE Concat(_, _)
Concat(f, n) == IF n = 0 THEN <<>> ELSE Concat(f, n - 1) \o f[n]

----------------------------------------------------------------------------
\* what the nested loops of a program show
ExpectedInner(id, i) ==
    SelectSeq([j \in 1..id.b |-> 10 * i + j],
              LAMBDA v : IF IsBreakFamily(id.fam) THEN v - 10 * i < id.c ELSE v - 10 * i # id.c)
ExpectedNest(id) ==
    Concat([i \in 1..id.a |-> ExpectedInner(id, i) \o <<i>>], id.a) \o <<0>>
\* C1: break ends only the nearest enclosing loop and continue skips only the
\* rest of its current iteration: in a nest of two loops the inner loop shows
\* 10 * i + j for the j before c (break) or other than c (continue), and the
\* outer loop goes on to show i for every i, and then 0 is shown.
C1_NearestLoopOnly ==
    last.prog \in NestPrograms =>
        last.exc = "none" /\ Shown(last.out) = ExpectedNest(last.prog)
\* a break that fired in the first of three inner iterations, with the outer
\* loop running on
C1_Witness ==
    /\ last.prog = Prog("ForWhileBreak", 2, 3, 2)
    /\ Shown(last.out) = <<11, 1, 21, 2, 0>>

----------------------------------------------------------------------------
\* what a program of the return families shows
ExpectedReturn(id) ==
    LET hit == IF id.fam \in {"ReturnInFor", "ReturnInWhile"} THEN id.c <= id.a ELSE id.a = id.c
        shownInLoop == [k \in 1..(IF hit THEN id.c - 1 ELSE id.a) |-> k]
    IN CASE id.fam \in {"ReturnInIf", "ReturnTwoVars"} ->
              IF hit THEN <<20, 0>> ELSE <<99, 30, 0>>
         [] id.fam \in {"ReturnInFor", "ReturnInWhile"} ->
              shownInLoop \o (IF hit THEN <<20 + id.c, 0>> ELSE <<99, 30, 0>>)
         [] id.fam = "ReturnInTry" ->
              IF hit THEN <<1, 20, 0>> ELSE <<1, 2, 99, 30, 0>>
         [] id.fam = "ReturnNoVar" ->
              IF hit THEN <<1, 1, 0>> ELSE <<1, 2, 1, 0>>
         [] id.fam = "ReturnUnassigned" ->
              IF hit THEN <<1, 0>> ELSE <<0, 0>>
\* C2: a return statement anywhere in a function body ends the body: the
\* statements after it are not run, and the call yields the value the first
\* return variable holds at that moment, or the empty value when the function
\* declares no return variable or never assigned it.
C2_ReturnEndsBody ==
    last.prog \in ReturnPrograms =>
        last.exc = "none" /\ Shown(last.out) = ExpectedReturn(last.prog)
\* a return in the second of three iterations of a loop inside the function
C2_Witness ==
    /\ last.prog = Prog("ReturnInFor", 3, 0, 2)
    /\ Shown(last.out) = <<1, 22, 0>>

----------------------------------------------------------------------------
\* does the try body of the program raise, and with what
TryRaises(id) ==
    id.fam \in {"TryError", "TryUndefined", "TryInFunction", "TryInternal", "TryNoVar"}
        \/ (id.fam = "TryInLoop" /\ id.c <= id.a)
ExpectedTry(id) ==
    LET inLoop == IF id.fam = "TryInLoop"
                  THEN [k \in 1..(IF TryRaises(id) THEN id.c - 1 ELSE id.a) |-> 10 + k]
                  ELSE <<>>
    IN <<1>> \o inLoop \o (IF TryRaises(id) THEN <<3, 0>> ELSE <<2, 0>>)
ExpectedMessage(id) ==
    CASE id.fam = "TryUndefined" -> <<"Undefined variable or function '", "nosuch", "'">>
      [] id.fam = "TryInternal" -> <<"cannot create std::vector larger than max_size()">>
      [] OTHER -> <<"boom">>
ExpectedCaught(id) ==
    makeStruct(("message" :> makeString(ExpectedMessage(id))) @@
               ("identifier" :> makeString(IF id.fam = "TryInternal"
                                           THEN <<"MatFree:internal">>
                                           ELSE <<"MatFree:runtime">>)))
\* the names bound in the scope the interpreter is in
BoundNow == DOMAIN envs[currentEnv_].variables_
\* C3: when a statement of a try block raises a runtime error with message m,
\* the rest of the try block is skipped and the catch block runs with the
\* catch variable bound to a struct whose message is m and whose identifier is
\* 'MatFree:runtime'; for an internal fault that is not a runtime error the
\* identifier is 'MatFree:internal'; without a catch variable nothing is
\* bound.
C3_TryCatch ==
    last.prog \in TryPrograms =>
        /\ last.exc = "none"
        /\ Shown(last.out) = ExpectedTry(last.prog)
        /\ IF TryRaises(last.prog) /\ last.prog.fam # "TryNoVar"
           THEN /\ "e" \in BoundNow
                /\ envs[currentEnv_].variables_["e"] = ExpectedCaught(last.prog)
           ELSE "e" \notin BoundNow
        /\ last.prog.fam = "TryNoVar" =>
               /\ currentEnv_ = last.currentEnv_
               /\ BoundNow = DOMAIN last.envs[last.currentEnv_].variables_
\* an internal fault caught with the catch variable bound
C3_Witness ==
    /\ last.prog = Prog("TryInternal", 0, 0, 0)
    /\ Shown(last.out) = <<1, 3, 0>>
    /\ "e" \in BoundNow
    /\ envs[currentEnv_].variables_["e"].struct_["identifier"].string_ = <<"MatFree:internal">>

----------------------------------------------------------------------------
\* what a program of the scope families shows
ExpectedScope(id) ==
    CASE id.fam = "ScopeWrite" -> <<50, id.a, 2, 0>>
      [] id.fam = "ScopeNestedWrite" -> <<50, id.a, 0>>
      [] OTHER -> <<3, 0>>
\* the variables of the scope the call started in, as they are now
CallerVariables == envs[last.currentEnv_].variables_
\* C4: a function sees neither the variables of its caller nor the plain
\* variables of the global scope (reading one raises the undefined-variable
\* error), and what its body assigns to names not declared global leaves the
\* variables of the caller and of the global scope as they were.
C4_FunctionScopesIsolated ==
    last.prog \in ScopePrograms =>
        /\ last.exc = "none"
        /\ Shown(last.out) = ExpectedScope(last.prog)
        /\ last.prog.fam = "ScopeWrite" =>
               /\ currentEnv_ = last.currentEnv_
               /\ CallerVariables =
                      ("x" :> makeScalar(last.prog.a)) @@ ("y" :> makeScalar(2)) @@
                      last.envs[last.currentEnv_].variables_
               /\ last.currentEnv_ # globalEnv_ => envs[globalEnv_] = last.envs[globalEnv_]
        /\ last.prog.fam = "ScopeNestedWrite" =>
               /\ currentEnv_ = last.currentEnv_
               /\ envs = last.envs
        /\ last.prog.fam \in {"ScopeRead", "ScopeNestedRead"} =>
               /\ "e" \in BoundNow
               /\ envs[currentEnv_].variables_["e"].struct_["message"].string_ =
                      <<"Undefined variable or function '", "x", "'">>
               /\ envs[globalEnv_].variables_ =
                      IF last.prog.fam = "ScopeRead" /\ last.currentEnv_ = globalEnv_
                      THEN ("x" :> makeScalar(last.prog.a)) @@ last.envs[globalEnv_].variables_
                      ELSE last.envs[globalEnv_].variables_
\* a function assigned x, y and z while the global scope held another x and
\* the caller's x and y came out as the caller set them
C4_Witness ==
    /\ last.prog = Prog("ScopeWrite", 3, 0, 0)
    /\ Shown(last.out) = <<50, 3, 2, 0>>
    /\ last.currentEnv_ = globalEnv_
    /\ "s" \in DOMAIN last.envs[globalEnv_].variables_
    /\ envs[globalEnv_].variables_["x"] = makeScalar(3)
    /\ "z" \notin DOMAIN envs[globalEnv_].variables_

----------------------------------------------------------------------------
\* C5: a name declared global in a function is the variable of the one shared
\* global scope: what a function assigns to it is what top-level code and
\* other functions declaring it global read, and what top-level code assigns
\* to it is what a function declaring it global reads.
C5_GlobalShared ==
    last.prog \in GlobalPrograms =>
        last.exc = "none" /\ Shown(last.out) = <<last.prog.a>>

----------------------------------------------------------------------------
\* what a call program observed: the number shown, or the message of the
\* error caught
Observed ==
    IF Len(last.out) > 0 THEN [shown |-> Shown(last.out), message |-> <<>>]
    ELSE [shown |-> <<>>,
          message |-> IF "e" \in BoundNow /\ isStruct(envs[currentEnv_].variables_["e"])
                      THEN envs[currentEnv_].variables_["e"].struct_["message"].string_
                      ELSE <<>>]
ShownValue(n) == [shown |-> <<n>>, message |-> <<>>]
Raised(m) == [shown |-> <<>>, message |-> m]
UndefinedFunction(name) == Raised(<<"Undefined function '", name, "'">>)

----------------------------------------------------------------------------
\* what name(args) comes to in each family
CallOutcome(id) ==
    CASE id.fam \in {"CallHandle", "CallHandleNamedUser"} -> ShownValue(200 + id.b)
      [] id.fam \in {"CallLinear", "CallTwoD"} -> ShownValue(10 * id.b)
      [] id.fam = "CallFlatten" -> ShownValue(MaxN)
      [] id.fam = "CallLogical" -> ShownValue(1)
      [] id.fam = "CallNamedBuiltin" -> ShownValue(1)
      [] id.fam = "CallNamedUser" -> ShownValue(100 + id.b)
      [] id.fam \in {"CallNoArgs", "CallThreeArgs", "CallStringArg", "CallString"} ->
           UndefinedFunction("v")
      [] id.fam = "CallCell" ->
           Raised(<<"Cell array () indexing not fully supported yet, use {} instead">>)
      [] id.fam = "CallStruct" -> Raised(<<"Struct array indexing not yet supported">>)
      [] id.fam = "CallUnbound" -> UndefinedFunction("nosuch")
      [] id.fam = "CallBuiltinFirst" -> ShownValue(MaxN)
\* C6: for name(args), a variable holding a function handle is invoked;
\* otherwise a numeric or logical variable whose name is not a known function
\* is indexed when there is one numeric or ':' argument or there are two
\* arguments, a cell-array variable whose name is not a known function raises
\* 'Cell array () indexing not fully supported yet, use {} instead' and such a
\* struct variable raises 'Struct array indexing not yet supported'; every
\* other case, a numeric variable with no argument, three arguments or one
\* string argument included, is a function invocation that tries the builtins
\* first and the user functions second and raises 'Undefined function' when
\* neither provides the name.
C6_CallOrIndex ==
    last.prog \in CallPrograms => last.exc = "none" /\ Observed = CallOutcome(last.prog)
\* a cell-array variable met with the cell indexing error, not with a
\* function invocation
C6_Witness ==
    /\ last.prog = Prog("CallCell", 0, 1, 0)
    /\ last.exc = "none"
    /\ Observed = Raised(<<"Cell array () indexing not fully supported yet, use {} instead">>)
\* C6 in the specification's wording: a handle is invoked, a numeric or
\* logical variable whose name is not a known function is indexed, and every
\* other case is a function invocation, which raises 'Undefined function' for
\* a name that no registry provides.
C6_AsStated ==
    last.prog \in CallPrograms =>
        /\ last.exc = "none"
        /\ last.prog.fam \in {"CallNoArgs", "CallThreeArgs", "CallStringArg"} =>
               Observed # UndefinedFunction("v")
        /\ last.prog.fam \in {"CallCell", "CallStruct"} => Observed = UndefinedFunction("v")
        /\ last.prog.fam \notin {"CallNoArgs", "CallThreeArgs", "CallStringArg", "CallCell",
                                 "CallStruct"} => Observed = CallOutcome(last.prog)

----------------------------------------------------------------------------
\* is the index of the program outside the variable?
IndexOutside(id) ==
    CASE id.fam \in {"IndexLinear", "IndexVector"} -> id.a < 1 \/ id.a > MaxN
      [] id.fam = "IndexMatrix" -> id.a < 1 \/ id.a > 4
      [] id.fam = "IndexTwoD" -> id.a < 1 \/ id.a > 2 \/ id.b < 1 \/ id.b > 2
IndexInside(id) ==
    CASE id.fam = "IndexLinear" -> ShownValue(10 * id.a)
      [] id.fam = "IndexVector" -> ShownValue(2)
      [] id.fam = "IndexMatrix" -> ShownValue(id.a)
      [] id.fam = "IndexTwoD" -> ShownValue(2 * (id.a - 1) + id.b)
\* C7: reading a numeric variable with an index outside its bounds raises
\* 'Index exceeds array dimensions' and yields no value, for linear indexing
\* with a scalar or a vector index and for 2-D indexing with a row or column
\* index outside the matrix.
C7_IndexOutOfBounds ==
    last.prog \in IndexPrograms =>
        /\ last.exc = "none"
        /\ IF IndexOutside(last.prog)
           THEN Observed = Raised(<<"Index exceeds array dimensions">>) /\ "r" \notin BoundNow
           ELSE Observed = IndexInside(last.prog)
\* the part of C7 that holds: linear indexing checks its index
LinearIndexChecked ==
    last.prog \in IndexPrograms /\ last.prog.fam # "IndexTwoD" =>
        /\ last.exc = "none"
        /\ IF IndexOutside(last.prog)
           THEN Observed = Raised(<<"Index exceeds array dimensions">>) /\ "r" \notin BoundNow
           ELSE Observed = IndexInside(last.prog)
\* A(1, 3) on the 2x2 matrix yields the element of the next row
ReadsNextRow ==
    last.prog = Prog("IndexTwoD", 1, 3, 0) => last.exc = "none" /\ Observed = ShownValue(3)
\* a 2-D read past the end of the data crashes or yields whatever is there
ReadsPastEnd ==
    last.prog = Prog("IndexTwoD", 3, 1, 0) =>
        last.exc = "crash" \/ (last.exc = "none" /\ Observed = ShownValue(JunkValue))

----------------------------------------------------------------------------
\* what a program observed when it showed several numbers
ShownValues(ns) == [shown |-> ns, message |-> <<>>]
UndefinedVariable(name) == Raised(<<"Undefined variable or function '", name, "'">>)

\* what a program of the anonymous-function families shows
AnonOutcome(id) ==
    CASE id.fam = "AnonSquare" -> ShownValues(<<25, id.a>>)
      [] id.fam = "AnonOuter" -> UndefinedVariable("x")
      [] id.fam = "AnonAns" -> ShownValues(<<7, id.a>>)
      [] id.fam = "AnonReadsAns" -> ShownValue(1)
      [] id.fam = "AnonNargin" -> ShownValue(1)
      [] id.fam = "AnonNamedFunction" -> ShownValue(101)
\* the caller's variables after the call: what they were, with the
\* variables the program itself assigned
CallerAfter(id) ==
    LET before == last.envs[last.currentEnv_].variables_
        handle == envs[currentEnv_].variables_["f"]
    IN CASE id.fam = "AnonSquare" ->
              ("x" :> makeScalar(id.a)) @@ ("f" :> handle) @@ ("y" :> makeScalar(25)) @@ before
         [] id.fam = "AnonAns" ->
              ("ans" :> makeScalar(id.a)) @@ ("f" :> handle) @@ ("y" :> makeScalar(7)) @@ before
         [] id.fam = "AnonReadsAns" ->
              ("ans" :> makeScalar(id.a)) @@ ("f" :> handle) @@ ("y" :> makeBool(TRUE)) @@ before
         [] id.fam = "AnonNargin" -> ("f" :> handle) @@ ("y" :> makeScalar(1)) @@ before
         [] id.fam = "AnonNamedFunction" ->
              ("hundred" :> makeScalar(id.a)) @@ ("f" :> handle) @@ ("y" :> makeScalar(101))
              @@ before
----------------------------------------------------------------------------
\* the numbers a program showed and the message of the error it caught
Seen ==
    [shown |-> Shown(last.out),
     message |-> IF "e" \in BoundNow /\ isStruct(envs[currentEnv_].variables_["e"])
                 THEN envs[currentEnv_].variables_["e"].struct_["message"].string_
                 ELSE <<>>]
UndefinedWhat(name) == <<"Undefined variable or function '", name, "'">>

\* what a program of the binding families shows
BindOutcome(id) ==
    CASE id.fam = "BindTwo" ->
           [shown |-> <<id.a, 1>> \o (IF id.a >= 1 THEN <<11>> ELSE <<>>)
                                  \o (IF id.a >= 2 THEN <<12, 5>> ELSE <<>>),
            message |-> IF id.a = 0 THEN UndefinedWhat("p")
                        ELSE IF id.a = 1 THEN UndefinedWhat("q") ELSE <<>>]
      [] id.fam = "BindInOut" ->
           [shown |-> <<id.a, IF id.a = 0 THEN 1 ELSE 0, 5>>, message |-> <<>>]
      [] id.fam = "BindNamedFunction" ->
           [shown |-> <<IF id.a = 0 THEN 101 ELSE 12>>, message |-> <<>>]
\* C9: a call with k arguments of a function with p parameters binds the first
\* min(k, p) parameters to the arguments in a fresh scope (further arguments
\* are ignored), sets nargin to k and seeds every declared return variable
\* that is not bound yet with the empty value; a parameter without an argument
\* stays unbound unless it is also a return variable, which is seeded with the
\* empty value; reading an unbound parameter raises the undefined-variable
\* error unless its name is that of a known function, which is then called.
C9_ParameterBinding ==
    last.prog \in BindPrograms => last.exc = "none" /\ Seen = BindOutcome(last.prog)
\* a parameter that is also the return variable, called without argument:
\* it read as the empty value
C9_Witness ==
    /\ last.prog = Prog("BindInOut", 0, 0, 0)
    /\ last.exc = "none"
    /\ Seen = [shown |-> <<0, 1, 5>>, message |-> <<>>]
\* C9 in the specification's wording: every parameter without an argument
\* stays unbound, and reading it raises the undefined-variable error.
C9_AsStated ==
    last.prog \in BindPrograms =>
        /\ last.exc = "none"
        /\ Seen =
               IF last.prog.a = 0 /\ last.prog.fam = "BindInOut"
               THEN [shown |-> <<0>>, message |-> UndefinedWhat("x")]
               ELSE IF last.prog.a = 0 /\ last.prog.fam = "BindNamedFunction"
                    THEN [shown |-> <<>>, message |-> UndefinedWhat("hundred")]
               ELSE BindOutcome(last.prog)

----------------------------------------------------------------------------
\* what a loop of the for families shows
ForOutcome(id) ==
    CASE id.fam = "ForSum" -> ShownValues(<<(id.a * (id.a + 1)) \div 2>>)
      [] id.fam = "ForRow" -> ShownValues([n \in 1..id.a |-> 10 * n] \o <<0>>)
      [] id.fam = "ForMatrix" ->
           ShownValues(Concat([n \in 1..id.a |-> <<2, 10 + n, 20 + n>>], id.a) \o <<0>>)
      [] id.fam = "ForColumn" ->
           ShownValues((IF id.a = 0 THEN <<>> ELSE <<id.a>>) \o <<0>>)
      [] id.fam = "ForNoRows" -> ShownValues([n \in 1..id.a |-> 0] \o <<id.a>>)
      [] id.fam = "ForLogical" -> ShownValues(<<1, 0>>)
      [] id.fam \in {"ForString", "ForCell"} -> Raised(<<"For loop requires numeric range">>)
\* the numbers shown and the message caught, with no number shown as <<>>
Outcome ==
    [shown |-> Shown(last.out),
     message |-> IF Len(last.out) = 0 /\ "e" \in BoundNow
                    /\ isStruct(envs[currentEnv_].variables_["e"])
                 THEN envs[currentEnv_].variables_["e"].struct_["message"].string_
                 ELSE <<>>]
\* C10: a for loop over a numeric or logical range runs its body once per
\* column of the range, in column order, with the loop variable bound to the
\* scalar element when the range has one row and to the whole column
\* otherwise; without a break the body runs exactly cols(range) times: zero
\* times for a range without columns, and a times for the empty range with no
\* rows and a columns, each time with an empty column; so s = 0; for i = 1:n,
\* s = s + i; end leaves s equal to n(n+1)/2.  A range that is not numeric
\* raises a runtime error.
C10_ForLoopColumns ==
    last.prog \in ForPrograms => last.exc = "none" /\ Outcome = ForOutcome(last.prog)
\* a loop over a matrix of two rows and three columns
C10_Witness ==
    /\ last.prog = Prog("ForMatrix", 3, 0, 0)
    /\ Shown(last.out) = <<2, 11, 21, 2, 12, 22, 2, 13, 23, 0>>
\* C10 in the specification's wording: the body runs zero times for every
\* empty range.
C10_AsStated ==
    last.prog \in ForPrograms =>
        /\ last.exc = "none"
        /\ Outcome = IF last.prog.fam = "ForNoRows" THEN ShownValues(<<0>>)
                     ELSE ForOutcome(last.prog)

----------------------------------------------------------------------------
\* what the counting loop shows: 100 for every evaluation of the condition,
\* then the counter, and 0 after the loop
WhileCounted(n) == Concat([i \in 1..n |-> <<100, i>>], n) \o <<100, 0>>

\* C11: a while loop evaluates its condition before every iteration, and a
\* condition that is not numeric (a string, a cell array, a struct, a
\* function handle, the empty value) raises 'Cannot convert value to
\* logical' before the body runs.
C11_WhileCondition ==
    last.prog \in WhilePrograms =>
        /\ last.exc = "none"
        /\ Seen = IF last.prog.fam = "WhileCount"
                  THEN [shown |-> WhileCounted(last.prog.a), message |-> <<>>]
                  ELSE [shown |-> <<>>, message |-> toBoolWhat]

\* the part of C11 that holds: every condition but a string
WhileConditionButString ==
    last.prog \in WhilePrograms /\ last.prog.fam \notin {"WhileString", "WhileEmptyString"} =>
        /\ last.exc = "none"
        /\ Seen = IF last.prog.fam = "WhileCount"
                  THEN [shown |-> WhileCounted(last.prog.a), message |-> <<>>]
                  ELSE [shown |-> <<>>, message |-> toBoolWhat]

\* a string condition is taken for true when it has characters and for
\* false when it has none
WhileStringCoerced ==
    /\ last.prog.fam = "WhileString" => last.exc = "none" /\ Shown(last.out) = <<1, 0>>
    /\ last.prog.fam = "WhileEmptyString" => last.exc = "none" /\ Shown(last.out) = <<0>>

----------------------------------------------------------------------------
(* The lexer on its own: a Lexer is built on a source text and tokenize is *)
(* called on it.  The texts are the concatenations of at most MaxPieces    *)
(* pieces, and the texts with three quotes between any pieces.             *)

LexPieces ==
    {<<"a", "b", "c">>, <<"1">>, <<"(">>, <<")">>, <<"]">>, <<"}">>, <<"'">>, <<".", "'">>,
     <<"\"">>, <<"e", "n", "d">>, <<"t", "r", "u", "e">>, <<"f", "a", "l", "s", "e">>,
     <<"i", "f">>, <<"+">>, <<",">>, <<";">>, <<"\n">>, <<"%">>, <<" ">>}

\* the concatenations of at most n of the pieces
RECURSIVE TextsOf(_, _)
TextsOf(pieces, n) ==
    IF n = 0 THEN {<<>>}
    ELSE TextsOf(pieces, n - 1) \cup {t \o p : t \in TextsOf(pieces, n - 1), p \in pieces}

QuoteTexts ==
    {a \o <<"'">> \o b \o <<"'">> \o c \o <<"'">> :
        a \in LexPieces \cup {<<>>}, b \in LexPieces \cup {<<>>}, c \in LexPieces \cup {<<>>}}

LexTexts == TextsOf(LexPieces, MaxPieces) \cup QuoteTexts

\* Lexer::Lexer(source, filename)
NewLexer(code) == Front("Lexer", code, "none", <<>>, <<>>, Program(<<>>, <<>>))

LexInit == Constructed /\ \E code \in LexTexts : front = NewLexer(code)

\* Lexer::tokenize()
Tokenize ==
    /\ front.op = "Lexer"
    /\ front' = With(tokenize(front.code), LAMBDA lexed :
                    [front EXCEPT !.op = "tokenize", !.exc = lexed.exc, !.msg = lexed.msg,
                                  !.tokens = lexed.tokens])
    /\ UNCHANGED <<envs, currentEnv_, userFunctions_, output_, last, nCalls>>

LexNext == Tokenize

LexSpec == LexInit /\ [][LexNext]_vars

\* the token emitted before the k-th: at the start the lexer behaves as if
\* a NEWLINE had been emitted
PreviousToken(tokens, k) == IF k = 1 THEN FirstLastToken ELSE tokens[k - 1]

\* the types of the tokens
Types(tokens) == [k \in 1 .. Len(tokens) |-> tokens[k].type]

\* the k-th token starts at the character c of the text
StartsWith(k, c) ==
    /\ front.tokens[k].type # "EOF_TOKEN"
    /\ front.code[front.tokens[k].at] = c

----------------------------------------------------------------------------
----------------------------------------------------------------------------
\* C15: in the tokens of any text no NEWLINE token comes right after a
\* NEWLINE, a SEMICOLON or a COMMA token, a line that ends with a % comment
\* included, and no NEWLINE comes before the first real token.
C15_NoDoubledTerminator ==
    front.op = "tokenize" =>
        \A k \in 1 .. Len(front.tokens) :
            front.tokens[k].type = "NEWLINE" =>
                PreviousToken(front.tokens, k).type \notin {"NEWLINE", "SEMICOLON", "COMMA"}

\* a NEWLINE never comes after a NEWLINE or a SEMICOLON nor first, and the
\* NEWLINE made by a newline character never comes after a COMMA
NewlineButAfterComma ==
    front.op = "tokenize" =>
        \A k \in 1 .. Len(front.tokens) :
            front.tokens[k].type = "NEWLINE" =>
                /\ PreviousToken(front.tokens, k).type \notin {"NEWLINE", "SEMICOLON"}
                /\ StartsWith(k, "\n") => PreviousToken(front.tokens, k).type # "COMMA"

\* the NEWLINE made by a % comment does come after a COMMA:  abc,%
CommentAfterComma ==
    (front.op = "tokenize" /\ front.code = <<"a", "b", "c", ",", "%">>) =>
        Types(front.tokens) = <<"IDENTIFIER", "COMMA", "NEWLINE", "EOF_TOKEN">>

----------------------------------------------------------------------------
\* the position of the delimiter that closes the string literal whose text
\* starts at pos, 0 when a newline or the end of the text comes first; a
\* doubled delimiter is a character of the string
RECURSIVE ClosingDelimiter(_, _, _)
ClosingDelimiter(code, pos, delimiter) ==
    IF pos > Len(code) THEN 0
    ELSE IF code[pos] = delimiter
    THEN IF pos < Len(code) /\ code[pos + 1] = delimiter
         THEN ClosingDelimiter(code, pos + 2, delimiter)
         ELSE pos
    ELSE IF code[pos] = "\n" THEN 0
    ELSE ClosingDelimiter(code, pos + 1, delimiter)

\* C16: a string literal whose closing delimiter is missing, because a
\* newline or the end of the input comes first, makes no STRING token (the
\* lexer raises LexerError); a doubled delimiter does not close the literal.
C16_UnterminatedString ==
    front.op = "tokenize" =>
        \A k \in 1 .. Len(front.tokens) :
            front.tokens[k].type = "STRING" =>
                ClosingDelimiter(front.code, front.tokens[k].at + 1,
                                 front.code[front.tokens[k].at]) # 0

\* the literal that a newline cuts short makes no STRING token, and a
\* LexerError is raised only for such a literal
UnterminatedByNewline ==
    front.op = "tokenize" =>
        /\ \A k \in 1 .. Len(front.tokens) :
              front.tokens[k].type = "STRING" =>
                  \/ ClosingDelimiter(front.code, front.tokens[k].at + 1,
                                      front.code[front.tokens[k].at]) # 0
                  \/ \A p \in front.tokens[k].at .. Len(front.code) : front.code[p] # "\n"
        /\ front.msg = <<"Unterminated string literal">> =>
              \E p \in 1 .. Len(front.code) : front.code[p] = "\n"

\* the literal that the end of the input cuts short is a STRING token:  'abc
UnterminatedAtEnd ==
    (front.op = "tokenize" /\ front.code = <<"'", "a", "b", "c">>) =>
        /\ front.exc = "none"
        /\ Types(front.tokens) = <<"STRING", "EOF_TOKEN">>
        /\ front.tokens[1].lexeme = "abc"

----------------------------------------------------------------------------
(* The parser on its own: a text is tokenized and a Parser built on the    *)
(* tokens parses them.  The texts are statements in a row and inside the   *)
(* control constructs, the same statements with each of the separators,    *)
(* and the expressions of at most MaxExprPieces operators and operands.    *)

Statements == {"a = 1", "b = 2", "disp(a)", "a", "break", "continue", "return"}
Separators == {"\n", ",", ";", " "}
Headers == {"for i = 1:3", "while a", "if a", "try"}

\* two statements in a row, two statements in a construct, and a statement
\* behind the end of a construct
Row(s1, s2, sep) == Chars(s1 \o sep \o s2)
Block(header, s1, s2, sep) == Chars(header \o sep \o s1 \o sep \o s2 \o sep \o "end")
AfterEnd(header, s1, s2, sep) == Chars(header \o "\n" \o s1 \o "\n" \o "end" \o sep \o s2)

StatementTexts(sep) ==
    {Row(s1, s2, sep) : s1 \in Statements, s2 \in Statements}
    \cup {Block(h, s1, s2, sep) : h \in Headers, s1 \in Statements, s2 \in Statements}
    \cup {AfterEnd(h, s1, s2, sep) : h \in Headers, s1 \in Statements, s2 \in Statements}

ExprPieces == {<<"-">>, <<"^">>, <<"*">>, <<"a">>, <<"2">>}
PowerExamples == {Chars("-2^2"), Chars("a^b^c"), Chars("a^-b"), Chars("-a*b")}
ExprTexts == TextsOf(ExprPieces, MaxExprPieces) \cup PowerExamples

ParseTexts == UNION {StatementTexts(sep) : sep \in Separators} \cup ExprTexts

ParseInit == Constructed /\ \E code \in ParseTexts : front = NewLexer(code)

\* Parser::Parser(tokens) and Parser::parse()
Parse ==
    /\ front.op = "tokenize"
    /\ front.exc = "none"
    /\ front' = With(parse(front.tokens), LAMBDA parsed :
                    [front EXCEPT !.op = "parse", !.exc = parsed.exc, !.msg = parsed.msg,
                                  !.program = IF parsed.exc = "none" THEN parsed.node
                                              ELSE Program(<<>>, <<>>)])
    /\ UNCHANGED <<envs, currentEnv_, userFunctions_, output_, last, nCalls>>

ParseNext == Tokenize \/ Parse

ParseSpec == ParseInit /\ [][ParseNext]_vars

----------------------------------------------------------------------------
\* C17: a statement, a control header, or break, continue, return or end
\* that is followed on the same line by a token that is not ; , newline, the
\* end of the input or a block-closing keyword is rejected with a
\* ParseError.
C17_StrayTokenRejected ==
    (front.op = "parse" /\ front.code \in StatementTexts(" ")) => front.exc = "ParseError"

\* parse gives a program or raises ParseError, and of the texts with a stray
\* token it accepts these:  a = 1 b = 2  and  break a
StrayTokenAccepted ==
    /\ front.op = "parse" => front.exc \in {"none", "ParseError"}
    /\ (front.op = "parse" /\ front.code = Chars("a = 1 b = 2")) =>
          front.program.statements = <<Assign(Id("a"), Num(1), TRUE), Assign(Id("b"), Num(2), TRUE)>>
    /\ (front.op = "parse" /\ front.code = Chars("break a")) =>
          front.program.statements = <<Break, ExprStmt(Id("a"), TRUE)>>

----------------------------------------------------------------------------
\* the text with a newline for every comma
CommasToNewlines(code) == [i \in 1 .. Len(code) |-> IF code[i] = "," THEN "\n" ELSE code[i]]

\* C19: statements separated by commas parse without error into the
\* statement list they parse into when separated by newlines.
C19_CommaEndsStatement ==
    (front.op = "parse" /\ front.code \in StatementTexts(",")) =>
        /\ front.exc = "none"
        /\ front.program = parse(tokenize(CommasToNewlines(front.code)).tokens).node

\* the comma behind a control header ends the header; the comma behind an
\* expression statement or an assignment is an unexpected token
CommaAfterStatement ==
    /\ (front.op = "parse" /\ front.code = Chars("a = 1,b = 2")) =>
          (front.exc = "ParseError" /\ front.msg = <<"Unexpected token", "COMMA">>)
    /\ (front.op = "parse" /\ front.code = Chars("for i = 1:3,disp(a),a,end")) =>
          (front.exc = "ParseError" /\ front.msg = <<"Unexpected token", "COMMA">>)
    /\ (front.op = "parse" /\ front.code = Chars("for i = 1:3,break,continue,end")) =>
          front.program.statements = <<For("i", Colon(Num(1), Num(3)), <<Break, Continue>>)>>

----------------------------------------------------------------------------
\* the tokens an expression without parentheses is made of, in their order:
\* the name of an identifier, NUMBER for a number, the type of an operator
RECURSIVE Flatten(_)
Flatten(e) ==
    CASE e.k = "Identifier" -> <<e.name>>
      [] e.k = "NumberLiteral" -> <<"NUMBER">>
      [] e.k = "UnaryExpr" -> <<e.op>> \o Flatten(e.operand)
      [] e.k = "BinaryExpr" -> Flatten(e.left) \o <<e.op>> \o Flatten(e.right)

RECURSIVE FlattenAll(_)
FlattenAll(stmts) ==
    IF stmts = <<>> THEN <<>>
    ELSE Flatten(Head(stmts).expression) \o FlattenAll(Tail(stmts))

\* the same of the tokens, the EOF_TOKEN left out
Spelled(tokens) ==
    [k \in 1 .. Len(tokens) - 1 |->
        IF tokens[k].type = "IDENTIFIER" THEN tokens[k].lexeme ELSE tokens[k].type]

IsProduct(e) == e.k = "BinaryExpr" /\ e.op = "STAR"

\* the nesting of powers, prefix operators and products in an expression
\* without parentheses: the base of a power is an operand on its own; the
\* exponent and the operand of a prefix operator are no products, they may be
\* powers and may have a prefix operator; the right factor of a product is
\* no product
RECURSIVE PowerNesting(_)
PowerNesting(e) ==
    CASE e.k = "BinaryExpr" /\ e.op = "CARET" ->
            /\ e.left.k \in {"Identifier", "NumberLiteral"}
            /\ ~IsProduct(e.right)
            /\ PowerNesting(e.right)
      [] e.k = "BinaryExpr" /\ e.op # "CARET" ->
            /\ IsProduct(e) => ~IsProduct(e.right)
            /\ PowerNesting(e.left)
            /\ PowerNesting(e.right)
      [] e.k = "UnaryExpr" -> ~IsProduct(e.operand) /\ PowerNesting(e.operand)
      [] OTHER -> TRUE

\* the one expression statement (shown) that is the whole text
Only(e) == <<ExprStmt(e, TRUE)>>

\* C18: power is right-associative and binds tighter than the prefix
\* operators, which bind tighter than multiplication: every expression
\* without parentheses that parses keeps its tokens in their order and is
\* nested accordingly, and -2^2 is -(2^2), a^b^c is a^(b^c), a^-b is a^(-b),
\* -a*b is (-a)*b.
C18_PowerPrecedence ==
    (front.op = "parse" /\ front.code \in ExprTexts) =>
        /\ front.exc = "none" =>
              /\ \A k \in 1 .. Len(front.program.statements) :
                    /\ front.program.statements[k].k = "ExprStmt"
                    /\ PowerNesting(front.program.statements[k].expression)
              /\ FlattenAll(front.program.statements) = Spelled(front.tokens)
        /\ front.code = Chars("-2^2") =>
              front.program.statements = Only(Unary("MINUS", Bin("CARET", Num(2), Num(2))))
        /\ front.code = Chars("a^b^c") =>
              front.program.statements = Only(Bin("CARET", Id("a"), Bin("CARET", Id("b"), Id("c"))))
        /\ front.code = Chars("a^-b") =>
              front.program.statements = Only(Bin("CARET", Id("a"), Unary("MINUS", Id("b"))))
        /\ front.code = Chars("-a*b") =>
              front.program.statements = Only(Bin("STAR", Unary("MINUS", Id("a")), Id("b")))

\* -a^-2 is -(a^(-2))
C18_Witness ==
    /\ front.op = "parse"
    /\ front.code = Chars("-a^-2")
    /\ front.program.statements =
          Only(Unary("MINUS", Bin("CARET", Id("a"), Unary("MINUS", Num(2)))))

----------------------------------------------------------------------------
\* the definitions among the statements, in their order
RECURSIVE DefinitionsIn(_)
DefinitionsIn(stmts) ==
    IF stmts = <<>> THEN <<>>
    ELSE IF Head(stmts).k = "FunctionDef" THEN <<Head(stmts).def>> \o DefinitionsIn(Tail(stmts))
    ELSE DefinitionsIn(Tail(stmts))

\* C12: the parser collects the function definitions at the top level of a
\* text in the functions of the program, and execute registers them before
\* it runs a statement: a call that stands before the definition resolves to
\* the function (disp(twice(a)) shows a + a), and the function is registered
\* even when the first statement raises an error.
C12_ForwardReference ==
    /\ (front.op = "parse" /\ front.exc = "none") =>
          front.program.functions = DefinitionsIn(front.program.statements)
    /\ last.prog.fam \in {"Forward", "ForwardAssign"} =>
          /\ last.exc = "none"
          /\ Shown(last.out) = <<last.prog.a + last.prog.a>>
          /\ "twice" \in DOMAIN userFunctions_
    /\ last.prog.fam = "ForwardError" =>
          /\ last.exc = "RuntimeError"
          /\ last.msg = <<"stop">>
          /\ "twice" \in DOMAIN userFunctions_
    /\ last.prog.fam = "Undefined" => last.exc = "RuntimeError"

\* disp(twice(2)) in front of the definition of twice shows 4
C12_Witness ==
    /\ last.prog = Prog("Forward", 2, 0, 0)
    /\ Len(front.program.functions) = 1
    /\ Shown(last.out) = <<4>>

----------------------------------------------------------------------------
\* C13: when the lexer or the parser raises an error on the text given to
\* executeString, the error escapes the call, a try/catch in the text
\* notwithstanding, and no statement of the text is executed: the variables,
\* the registry of user functions and the output are as before the call.
C13_FrontEndErrorEscapes ==
    [][(nCalls' = nCalls + 1 /\ front'.exc \in {"LexerError", "ParseError"}) =>
          /\ last'.exc = front'.exc
          /\ last'.msg = front'.msg
          /\ envs' = envs
          /\ currentEnv_' = currentEnv_
          /\ userFunctions_' = userFunctions_
          /\ output_' = output_]_vars

\* the text with  y = (3;  behind a session that registered fail: the
\* ParseError escapes, twice is not registered
C13_Witness ==
    /\ last.prog.fam = "OpenParen"
    /\ last.exc = "ParseError"
    /\ front.exc = "ParseError"
    /\ DOMAIN userFunctions_ = {"fail"}
    /\ last.out = <<>>

\* a runtime error in the same place is caught: 2 and 3 are shown
RuntimeErrorCaught ==
    last.prog.fam = "Caught" => (last.exc = "none" /\ Shown(last.out) = <<2, 3>>)

----------------------------------------------------------------------------
(* The storage of a matrix *)

\* the values an interpreter state holds: the variables of every scope and
\* the values written to the output
HeldValues ==
    UNION {{envs[e].variables_[n] : n \in DOMAIN envs[e].variables_} : e \in DOMAIN envs}
    \cup {output_[i].value : i \in 1..Len(output_)}

HeldMatrices == {v.matrix_ : v \in {h \in HeldValues : isNumeric(h)}}

\* C20: every matrix an operation of the evaluator created or returned
\* (literal, range, arithmetic, comparison, transpose, concatenation,
\* indexing, indexed assignment with growth, reshape) holds exactly
\* rows * cols elements
C20_DataLength == \A m \in HeldMatrices : numel(m) = m.rows_ * m.cols_

\* what does hold: the element count is rows * cols as size_t computes it
DataLengthInSizeT == \A m \in HeldMatrices : numel(m) = SizeMulAdd(m.rows_, m.cols_, 0)

\* the matrices of the ordinary programs do hold rows * cols elements
DataLengthUnlessWide ==
    last.prog.fam \in ShapeFamilies \ {"ShapeReshapeWide", "ShapeGrowWide"} => C20_DataLength

\* a matrix grown by an indexed assignment is in the workspace
GrownMatrixHeld ==
    /\ last.prog = Prog("ShapeGrowTwoD", 3, 3, 0)
    /\ last.exc = "none"
    /\ envs[globalEnv_].variables_["A"].matrix_ =
           MatrixOf(3, 3, <<1, 2, 0, 3, 4, 0, 0, 0, 9>>)

----------------------------------------------------------------------------
(* Broadcasting *)

\* the variables of the current scope
Bound(name) == envs[currentEnv_].variables_[name].matrix_
RanBroadcast == last.prog.fam = "Broadcast" /\ "L" \in BoundNow /\ "R" \in BoundNow

\* the shape pairs the elementwise operations are to accept
Compatible(a, b) ==
    \/ a.rows_ = b.rows_ /\ a.cols_ = b.cols_
    \/ MatIsScalar(a) \/ MatIsScalar(b)
    \/ a.rows_ = b.rows_ /\ (a.cols_ = 1 \/ b.cols_ = 1)
    \/ a.cols_ = b.cols_ /\ (a.rows_ = 1 \/ b.rows_ = 1)

\* element (i, j) of m stretched along its axes of size 1; no such element
\* exists when m is empty
HasStretched(m, i, j) ==
    (IF m.rows_ = 1 THEN 0 ELSE i) < m.rows_ /\ (IF m.cols_ = 1 THEN 0 ELSE j) < m.cols_
Stretched(m, i, j) == At(m, IF m.rows_ = 1 THEN 0 ELSE i, IF m.cols_ = 1 THEN 0 ELSE j)

\* T is the broadcast combination of L and R
IsCombination(op, l, r, t) ==
    /\ t.rows_ = Max(l.rows_, r.rows_)
    /\ t.cols_ = Max(l.cols_, r.cols_)
    /\ numel(t) = t.rows_ * t.cols_
    /\ \A i \in 0..(t.rows_ - 1), j \in 0..(t.cols_ - 1) :
           /\ HasStretched(l, i, j)
           /\ HasStretched(r, i, j)
           /\ At(t, i, j) = ApplyOp(op, Stretched(l, i, j), Stretched(r, i, j))

BroadcastOutcome ==
    IF Compatible(Bound("L"), Bound("R"))
    THEN /\ last.exc = "none"
         /\ "T" \in BoundNow
         /\ IsCombination(BroadcastOps[last.prog.c], Bound("L"), Bound("R"), Bound("T"))
    ELSE /\ last.exc = "RuntimeError"
         /\ last.msg = broadcastWhat(Bound("L"), Bound("R"))
         /\ "T" \notin BoundNow

\* C21: an elementwise operation succeeds exactly on identical shapes, a
\* 1x1 operand, or shapes that agree on one axis with size 1 on the other;
\* the result has the larger size on each axis and combines the broadcast
\* operands; every other shape pair raises the dimension error naming both
\* shapes and yields no result
C21_Broadcast == RanBroadcast => BroadcastOutcome

\* what does hold: the claim for operands that are not empty
BroadcastOfNonEmpty ==
    RanBroadcast /\ ~MatIsEmpty(Bound("L")) /\ ~MatIsEmpty(Bound("R")) => BroadcastOutcome

\* a column and a row of different lengths are refused
ColumnWithRowRefused ==
    /\ last.prog = Prog("Broadcast", 4, 6, 1)
    /\ last.msg = <<"Matrix dimensions must agree (", "2", "x", "1", " vs ", "1", "x", "3", ")">>

\* a column added to a matrix without columns: the read leaves the operand
ReadOutsideEmptyOperand ==
    /\ last.prog = Prog("Broadcast", 7, 9, 1)
    /\ last.exc = "crash"

----------------------------------------------------------------------------
(* Concatenation *)

RanConcat == last.prog.fam = "Concat" /\ "L" \in BoundNow /\ "R" \in BoundNow

\* l beside r (across = TRUE) or l above r
IsConcatenation(across, l, r, t) ==
    IF across
    THEN /\ t.rows_ = l.rows_ /\ t.cols_ = l.cols_ + r.cols_
         /\ numel(t) = t.rows_ * t.cols_
         /\ \A i \in 0..(t.rows_ - 1), j \in 0..(t.cols_ - 1) :
                At(t, i, j) = IF j < l.cols_ THEN At(l, i, j) ELSE At(r, i, j - l.cols_)
    ELSE /\ t.cols_ = l.cols_ /\ t.rows_ = l.rows_ + r.rows_
         /\ numel(t) = t.rows_ * t.cols_
         /\ \A i \in 0..(t.rows_ - 1), j \in 0..(t.cols_ - 1) :
                At(t, i, j) = IF i < l.rows_ THEN At(l, i, j) ELSE At(r, i - l.rows_, j)

ConcatRefused == last.exc = "RuntimeError" /\ last.msg = concatWhat /\ "T" \notin BoundNow
ConcatYields(m) == last.exc = "none" /\ "T" \in BoundNow /\ Bound("T") = m

\* the outcome for two operands that hold elements
ConcatOfNonEmpty(across, l, r) ==
    IF (across /\ l.rows_ = r.rows_) \/ (~across /\ l.cols_ = r.cols_)
    THEN last.exc = "none" /\ "T" \in BoundNow /\ IsConcatenation(across, l, r, Bound("T"))
    ELSE ConcatRefused

ConcatOutcome(across, l, r) ==
    IF ~MatIsEmpty(l) /\ ~MatIsEmpty(r) THEN ConcatOfNonEmpty(across, l, r)
    ELSE IF ~MatIsEmpty(l) THEN ConcatYields(l)
    ELSE IF ~MatIsEmpty(r) THEN ConcatYields(r)
    ELSE last.exc = "none"

\* C22: horzcat (vertcat) of non-empty inputs with the same number of rows
\* (columns) is their concatenation and raises a runtime error otherwise; an
\* empty input is skipped wherever it stands, so an empty matrix with a
\* non-empty M, in either order, yields M
C22_Concatenation == RanConcat => ConcatOutcome(last.prog.c = 1, Bound("L"), Bound("R"))

\* what does hold: the claim for inputs that hold elements, and for the
\* 0x0 matrix in second place
ConcatUnlessEmptyFirst ==
    RanConcat /\ ~MatIsEmpty(Bound("L")) /\ (MatIsEmpty(Bound("R")) => Bound("R") = DefaultMatrix)
        => ConcatOutcome(last.prog.c = 1, Bound("L"), Bound("R"))

\* an empty matrix in first place is not skipped: the concatenation is refused
EmptyFirstRefused ==
    /\ last.prog = Prog("Concat", 1, 6, 1)
    /\ ConcatRefused

\* an empty matrix in second place that has columns adds them
EmptySecondWidens ==
    /\ last.prog = Prog("Concat", 4, 10, 1)
    /\ ConcatYields(MatrixOf(2, 4, <<1, 0, 0, 0, 2, 0, 0, 0>>))

----------------------------------------------------------------------------
(* Assignment to one element *)

\* the matrix ShapeExpr(sh, first) evaluates to
ShapeMatrix(sh, first) ==
    MatrixOf(sh.rows, sh.cols, [k \in 1..(sh.rows * sh.cols) |-> first + k - 1])

\* new is old with element (r, c) set to v (r and c count from 1), grown
\* with zeros where (r, c) lies outside old
AssignedExactly(old, r, c, v, new) ==
    /\ new.rows_ = Max(old.rows_, r)
    /\ new.cols_ = Max(old.cols_, c)
    /\ numel(new) = new.rows_ * new.cols_
    /\ \A i \in 0..(new.rows_ - 1), j \in 0..(new.cols_ - 1) :
           At(new, i, j) = IF i = r - 1 /\ j = c - 1 THEN v
                           ELSE IF i < old.rows_ /\ j < old.cols_ THEN At(old, i, j)
                           ELSE 0

AssignOutcome ==
    /\ last.exc = "none"
    /\ {"A", "T"} \subseteq BoundNow
    /\ AssignedExactly(ShapeMatrix(Shapes[last.prog.a], 1), last.prog.b, last.prog.c, 9,
                       Bound("A"))
    /\ Bound("T") = MatrixScalar(9)

\* C23: A(r, c) = v with scalar r, c >= 1 on a numeric variable changes
\* exactly element (r, c): A grows to max(rows, r) x max(cols, c), the old
\* elements keep their positions, the other new positions are zero, and
\* A(r, c) reads back v
C23_AssignElement == last.prog.fam = "AssignTwoD" => AssignOutcome

\* what does hold: the claim while rows * cols of the grown matrix stays in
\* the range of size_t
AssignWithinSizeT ==
    last.prog.fam = "AssignTwoD" /\ last.prog.c # WideColumn => AssignOutcome

\* a matrix grown in both directions
GrownBothWays ==
    /\ last.prog = Prog("AssignTwoD", 5, 3, 3)
    /\ Bound("A") = MatrixOf(3, 3, <<1, 2, 0, 3, 4, 0, 0, 0, 9>>)

\* the wide assignment leaves a matrix of 4 elements
WideAssignment ==
    /\ last.prog = Prog("AssignTwoD", 2, 4, WideColumn)
    /\ last.exc = "none"
    /\ Bound("A").rows_ = 4 /\ Bound("A").cols_ = WideColumn /\ numel(Bound("A")) = 4

----------------------------------------------------------------------------
(* Value semantics *)

\* the value A and B are bound to before the assignment to a part of A
AliasOriginal(fam) ==
    CASE fam \in {"AliasIndexed", "AliasParam"} -> makeMatrix(MatrixOf(1, 3, <<10, 20, 30>>))
      [] fam = "AliasTwoD" -> makeMatrix(MatrixOf(2, 2, <<1, 2, 3, 4>>))
      [] fam \in {"AliasField", "AliasNewField"} -> makeStruct("f" :> makeScalar(10))
      [] fam = "AliasCell" ->
           makeCellArray([rows |-> 1, cols |-> 2, data |-> <<makeScalar(10), makeScalar(20)>>])

\* the variables of every scope there was before the call, but name, are
\* bound as they were
OthersAsBefore(name) ==
    \A e \in DOMAIN last.envs \cap DOMAIN envs :
        \A n \in DOMAIN last.envs[e].variables_ \ {name} :
            /\ n \in DOMAIN envs[e].variables_
            /\ envs[e].variables_[n] = last.envs[e].variables_[n]

\* C24: after B = A, an indexed, field or cell-index assignment to A changes
\* only the value bound to A: B, and every other variable of every scope,
\* reads as before
C24_ValueSemantics ==
    last.prog.fam \in AliasFamilies =>
        /\ last.exc = "none"
        /\ "B" \in BoundNow
        /\ envs[currentEnv_].variables_["B"] = AliasOriginal(last.prog.fam)
        /\ OthersAsBefore("A")

\* A has changed and B has not
C24_Witness ==
    /\ last.prog = Prog("AliasIndexed", 2, 0, 0)
    /\ Bound("A") = MatrixOf(1, 3, <<10, 9, 30>>)
    /\ Bound("B") = MatrixOf(1, 3, <<10, 20, 30>>)

\* the field and the cell of A have changed, those of B have not
FieldChangedInAOnly ==
    /\ last.prog = Prog("AliasField", 3, 0, 0)
    /\ envs[currentEnv_].variables_["A"] = makeStruct("f" :> makeScalar(3))
    /\ envs[currentEnv_].variables_["B"] = makeStruct("f" :> makeScalar(10))
CellChangedInAOnly ==
    /\ last.prog = Prog("AliasCell", 3, 0, 0)
    /\ envs[currentEnv_].variables_["A"].cellArray_ =
           [rows |-> 1, cols |-> 3, data |-> <<makeScalar(10), makeScalar(20), makeScalar(9)>>]
    /\ envs[currentEnv_].variables_["B"] = AliasOriginal("AliasCell")

----------------------------------------------------------------------------
(* The echo of an assignment *)

RanEcho(fam, b) == last.prog.fam = fam /\ last.prog.b = b

\* the "name = value" echo of the variable the assignment was made to
EchoOf(name) ==
    <<[kind |-> "display", name |-> name, value |-> envs[currentEnv_].variables_[name]]>>

\* the call returned normally and wrote to the sink the echo of the assigned
\* variable when the statement had no ; and nothing when it had one
EchoOutcome ==
    /\ last.exc = "none"
    /\ EchoTargetName(last.prog.fam) \in BoundNow
    /\ last.out = IF last.prog.b = 1 THEN EchoOf(EchoTargetName(last.prog.fam)) ELSE <<>>

\* C25: an assignment without ; writes the echo of the assigned variable to
\* the output sink whatever the shape of its target (identifier, indexed,
\* field, cell index), and an assignment with ; writes nothing
C25_AssignmentEcho == last.prog.fam \in EchoFamilies => EchoOutcome

\* what holds: assignments to an identifier and to an indexed target are
\* echoed, and with ; no target is
EchoOfNamedTargets ==
    /\ last.prog.fam \in {"EchoIdentifier", "EchoIndexed", "EchoEmpty"} => EchoOutcome
    /\ last.prog.fam \in EchoFamilies /\ last.prog.b = 0 => EchoOutcome

IndexedEchoed ==
    /\ RanEcho("EchoIndexed", 1)
    /\ last.out = <<[kind |-> "display", name |-> "A",
                     value |-> makeMatrix(MatrixOf(1, 3, <<10, last.prog.c, 30>>))]>>

\* a field and a cell are assigned without ; and the sink receives nothing
FieldNotEchoed ==
    /\ RanEcho("EchoField", 1) /\ last.exc = "none" /\ last.out = <<>>
    /\ envs[currentEnv_].variables_["R"] = makeStruct("f" :> makeScalar(last.prog.c))
CellNotEchoed ==
    /\ RanEcho("EchoCell", 1) /\ last.exc = "none" /\ last.out = <<>>
    /\ "K" \in BoundNow /\ isCellArray(envs[currentEnv_].variables_["K"])

----------------------------------------------------------------------------
(* Signals in a try body *)

\* what trip k of the loop shows when the signal is raised at trip a
TripShows(k, a) == IF k = a THEN <<k>> ELSE <<k, 10 + k, 20 + k>>

RECURSIVE TripsShow(_, _, _)
\* what trips k..SignalTrips show; leaves says whether the signal ends the loop
TripsShow(k, a, leaves) ==
    IF k > SignalTrips THEN <<>>
    ELSE IF k = a /\ leaves THEN <<k>>
    ELSE TripShows(k, a) \o TripsShow(k + 1, a, leaves)

\* what the program shows when the signal reaches the loop, or the call,
\* around it
SignalShows(id) ==
    CASE id.fam \in {"TryBreakFor", "TryBreakWhile"} -> TripsShow(1, id.a, TRUE) \o <<0>>
      [] id.fam \in {"TryContinueFor", "TryContinueWhile"} -> TripsShow(1, id.a, FALSE) \o <<0>>
      [] id.fam = "TryReturn" ->
           TripsShow(1, id.a, TRUE) \o (IF id.a <= SignalTrips THEN <<2>> ELSE <<50, 3>>)

\* is the name bound in any scope?
BoundAnywhere(name) == \E e \in DOMAIN envs : name \in DOMAIN envs[e].variables_

\* C26: a break, continue or return executed in a try body reaches the loop
\* or the function call around the try as it does without the try: the
\* program shows the same values with the try and without it, the catch body
\* does not run and the catch variable is not bound
C26_TryPassesSignals ==
    last.prog.fam \in SignalFamilies =>
        /\ last.exc = "none"
        /\ Shown(last.out) = SignalShows(last.prog)
        /\ ~BoundAnywhere("caught")

\* a break, a continue and a return were executed in a try body
C26_Witness ==
    /\ last.prog = Prog("TryBreakFor", 2, 0, 1)
    /\ Shown(last.out) = <<1, 11, 21, 2, 0>>
ContinuePassedTry ==
    /\ last.prog = Prog("TryContinueWhile", 2, 0, 1)
    /\ Shown(last.out) = <<1, 11, 21, 2, 3, 13, 23, 0>>
ReturnPassedTry ==
    /\ last.prog = Prog("TryReturn", 3, 0, 1)
    /\ Shown(last.out) = <<1, 11, 21, 2, 12, 22, 3, 2>>

----------------------------------------------------------------------------
(* The scope after a call *)

GlobalNames == DOMAIN envs[globalEnv_].variables_

\* the assignment after the call, and the catch variable, are bound in the
\* global scope
BoundAfterCall ==
    /\ last.exc = "none"
    /\ "w" \in GlobalNames /\ envs[globalEnv_].variables_["w"] = makeScalar(last.prog.a)
    /\ last.prog.fam = "AfterError" => "trouble" \in GlobalNames

\* C27: when a call of a user function has ended, by reaching its end, by a
\* return or by an error caught in the caller, the current scope is the one
\* that was current before: between calls of the entry points it is the
\* global scope, and the catch variable and a later top-level assignment are
\* bound there
C27_ScopeRestored ==
    /\ ~Fatal(last.exc) => currentEnv_ = globalEnv_
    /\ last.prog.fam \in AfterFamilies => BoundAfterCall

\* what holds: a call that reaches its end or returns restores the scope
\* that was current before it
RestoredUnlessError ==
    last.prog.fam \in {"AfterNormal", "AfterReturn"} =>
        /\ last.exc = "none"
        /\ currentEnv_ = last.currentEnv_
        /\ "w" \in BoundNow /\ envs[currentEnv_].variables_["w"] = makeScalar(last.prog.a)
        /\ last.currentEnv_ = globalEnv_ => "v" \notin GlobalNames

RestoredAfterReturn ==
    /\ last.prog = Prog("AfterReturn", 2, 0, 0)
    /\ last.currentEnv_ = globalEnv_ /\ currentEnv_ = globalEnv_
    /\ "w" \in GlobalNames

\* the error was caught at top level, and the function scope stays current:
\* it holds the catch variable and w beside the function's v
FunctionScopeKept ==
    /\ last.prog.fam = "AfterError" /\ last.exc = "none"
    /\ last.currentEnv_ = globalEnv_
    /\ currentEnv_ # globalEnv_
    /\ {"v", "trouble", "w"} \subseteq BoundNow
    /\ {"trouble", "w"} \cap GlobalNames = {}

----------------------------------------------------------------------------
(* Signals and the call boundary *)

RECURSIVE EveryTrip(_)
\* what the caller's loop shows from trip k on when every trip runs to its end
EveryTrip(k) == IF k > SignalTrips THEN <<>> ELSE <<k, 10 + k>> \o EveryTrip(k + 1)

\* C28: a break or continue executed in a function body outside any loop of
\* the function does not end or advance the loop of the caller that holds
\* the call: every trip of that loop runs to its end, and the caller's scope
\* is the current scope afterwards
C28_SignalsStayInCall ==
    last.prog.fam \in CrossFamilies =>
        /\ last.exc = "none"
        /\ Shown(last.out) = EveryTrip(1) \o <<0>>
        /\ "inside" \notin BoundNow
        /\ "k" \in BoundNow

\* what holds: a loop whose trips make no call that raises a signal runs
\* every trip
LoopWithoutSignal ==
    last.prog.fam \in CrossFamilies /\ last.prog.a > SignalTrips =>
        /\ last.exc = "none"
        /\ Shown(last.out) = EveryTrip(1) \o <<0>>
        /\ "k" \in BoundNow

\* the break of stop() has ended the caller's loop at trip 2, and the scope
\* of stop() is the current scope
LoopEndedByCallee ==
    /\ last.prog = Prog("CrossBreak", 2, 0, 0)
    /\ last.exc = "none"
    /\ Shown(last.out) = <<1, 11, 2, 0>>
    /\ "inside" \in BoundNow

\* the continue of skip() has started the next trip of the caller's loop
LoopAdvancedByCallee ==
    /\ last.prog = Prog("CrossContinue", 2, 0, 0)
    /\ last.exc = "none"
    /\ Shown(last.out) = <<1, 11, 2, 3, 13, 0>>
    /\ "inside" \in BoundNow

----------------------------------------------------------------------------
(* The operations of an Environment, on the global scope and on one child  *)
(* scope, in every order                                                   *)

EnvNames == {"G", "x"}
EnvValues == {makeScalar(1), makeScalar(2)}

\* the operation made last: what, on which scope, with which arguments
EnvOp(op, scope, name, value) == [op |-> op, scope |-> scope, name |-> name, value |-> value]

EnvLeave(es, op) ==
    /\ envs' = es
    /\ last' = op
    /\ UNCHANGED <<currentEnv_, userFunctions_, output_, nCalls, front>>

\* globalEnv_->createChild(), as callUserFunction makes it
EnvCreateChild ==
    /\ DOMAIN envs = {globalEnv_}
    /\ EnvLeave(createChild(envs, globalEnv_), EnvOp("createChild", globalEnv_, "", Null))

EnvSetValue ==
    \E e \in DOMAIN envs, name \in EnvNames, v \in EnvValues :
        EnvLeave(EnvSet(envs, e, name, v), EnvOp("set", e, name, v))

EnvDeclareGlobal ==
    \E e \in DOMAIN envs, name \in EnvNames :
        EnvLeave(declareGlobal(envs, e, name), EnvOp("declareGlobal", e, name, Null))

EnvClearAll ==
    \E e \in DOMAIN envs : EnvLeave(EnvClear(envs, e), EnvOp("clear", e, "", Null))

EnvClearOne ==
    \E e \in DOMAIN envs, name \in EnvNames :
        EnvLeave(EnvClearName(envs, e, name), EnvOp("clear", e, name, Null))

EnvNext == EnvCreateChild \/ EnvSetValue \/ EnvDeclareGlobal \/ EnvClearAll \/ EnvClearOne

EnvSpec == Init /\ [][EnvNext]_vars

\* the scope holds a binding of its own for a name it has declared global
Shadowed(e, name) ==
    /\ envs[e].parent_ # 0
    /\ name \in envs[e].globals_
    /\ name \in DOMAIN envs[e].variables_

\* get(name) and has(name) of the scope of the last set give what was set
ReadsBack ==
    /\ EnvGet(envs, last.scope, last.name) = last.value
    /\ EnvHas(envs, last.scope, last.name)

\* C29: right after set(name, v) on a scope, get(name) on that scope returns
\* v and has(name) is true, whatever set, declareGlobal and clear operations
\* came before, a local binding of a name declared global included
C29_SetThenGet == last.op = "set" => ReadsBack

\* what holds: set is read back unless the scope holds its own binding of a
\* name it declared global, and has(name) is true after every set
SetThenGetUnlessShadowed ==
    last.op = "set" =>
        /\ ~Shadowed(last.scope, last.name) => ReadsBack
        /\ EnvHas(envs, last.scope, last.name)

\* a set made after declareGlobal and clear is read back
SetReadBack ==
    /\ last.op = "set" /\ last.scope # globalEnv_
    /\ last.name \in envs[last.scope].globals_
    /\ last.name \notin DOMAIN envs[last.scope].variables_
    /\ ReadsBack

\* set(G, 2) went to the global scope, and get(G) returns the local 1
LocalReadAfterGlobalSet ==
    /\ last = EnvOp("set", 2, "G", makeScalar(2))
    /\ Shadowed(2, "G")
    /\ envs[globalEnv_].variables_["G"] = makeScalar(2)
    /\ EnvGet(envs, 2, "G") = makeScalar(1)

----------------------------------------------------------------------------
(* Short-circuit evaluation *)

\* does the left operand decide the result of the operator?
LeftDecides(id) ==
    IF ShortOperator(id.fam) = "SHORT_AND" THEN id.a = 0 ELSE id.a # 0

\* the truth value of the operation, 1 or 0
ShortValue(id) ==
    IF ShortOperator(id.fam) = "SHORT_AND"
    THEN (IF id.a # 0 /\ id.c # 0 THEN 1 ELSE 0)
    ELSE (IF id.a # 0 \/ id.c # 0 THEN 1 ELSE 0)

\* the right operand was not evaluated: nothing of it is shown, no error is
\* raised, and y is the value the left operand decides
RightSkipped(id) ==
    /\ last.exc = "none"
    /\ Shown(last.out) = <<IF ShortOperator(id.fam) = "SHORT_AND" THEN 0 ELSE 1>>

\* the right operand was evaluated: its output is shown or its error raised
RightEvaluated(id) ==
    IF id.fam \in {"ShortAndOutput", "ShortOrOutput"}
    THEN last.exc = "none" /\ Shown(last.out) = <<99, ShortValue(id)>>
    ELSE last.exc = "RuntimeError" /\ last.msg = <<"failing">> /\ last.out = <<>>

\* C30: in a && b the operand b is not evaluated when a is false, and in
\* a || b it is not evaluated when a is true: an error or an output of b
\* does not occur then
C30_ShortCircuit ==
    last.prog.fam \in ShortFamilies /\ LeftDecides(last.prog) => RightSkipped(last.prog)

\* what holds: both operands are evaluated, whatever the left one is
BothOperandsEvaluated == last.prog.fam \in ShortFamilies => RightEvaluated(last.prog)

\* false && noisy(1) has shown the 99 of noisy, and true || failing() has
\* raised the error of failing
OutputOfSkippedOperand ==
    /\ last.prog = Prog("ShortAndOutput", 0, 0, 1)
    /\ Shown(last.out) = <<99, 0>>
ErrorOfSkippedOperand ==
    /\ last.prog = Prog("ShortOrError", 1, 0, 0)
    /\ last.exc = "RuntimeError" /\ last.msg = <<"failing">>

====
